---- MODULE Spec2Model ----
(***************************************************************************)
(* Model of the multi-agent simulation orchestrator of geociv:             *)
(*   app/agents/session_manager.py   SessionThreads (per-session handles)  *)
(*   app/agents/interpreter.py       ProposalInterpreter.interpret         *)
(*   app/agents/reactor.py           AgentReactor (fan-out over AGENTS)    *)
(*   app/agents/townhall.py          TownHallGenerator.generate            *)
(*   app/services/simulation_job.py  SimulationJob / SimulationProgress    *)
(*   app/routers/ai_chat.py          ai_chat, run_progressive_simulation,  *)
(*                                   adopt_proposal, send_dm               *)
(*   app/agents/aggregator.py        SentimentAggregator.aggregate         *)
(*   app/routers/cache.py            check_cache, promote_policy           *)
(*   app/routers/scenarios.py        the agent override handlers           *)
(*   app/services/backboard_client.py BackboardClient                      *)
(*                                                                         *)
(* Every request handler is an asyncio coroutine: it runs without          *)
(* interruption up to its next await, so one action of the model is the    *)
(* code between two awaits.  The awaits are the three calls of             *)
(* BackboardClient (create_assistant, create_thread, send_message) and the *)
(* job-store writes of SimulationProgress.  An upstream call that has been *)
(* issued and has not returned is a program counter ending in _wait or     *)
(* _send; it returns either a value or a BackboardError.                   *)
(*                                                                         *)
(* Upstream ids are opaque strings chosen by the upstream; the model names *)
(* an id after the create call that returned it, so two creations never    *)
(* return the same id.                                                     *)
(*                                                                         *)
(* Spec is one simulation (POST /ai/chat or POST /ai/simulate) on a fresh  *)
(* session; SpecSession is MaxRequests requests (chat, adopt, dm) that may *)
(* overlap on one session.  The progressive simulation runs the same       *)
(* interpreter, reactor coroutines and town hall as the chat simulation,   *)
(* which stands for both in the overlapping runs.  SpecLive is Spec on an  *)
(* event loop that resumes every ready coroutine.  SpecCache is            *)
(* MaxRequests overlapping requests to the promotion cache and the agent   *)
(* overrides, SpecAdopt one adopt and SpecDm one dm on a session that     *)
(* earlier requests have used, SpecOverride one simulation on a scenario   *)
(* with override rows, and SpecActive a simulation with polls of the       *)
(* active calls.  SpecAggregate, SpecRelationship, SpecTownhall,           *)
(* SpecClient and SpecJobStore are calls on one object: the aggregator,    *)
(* a session's relationships, the town hall transcript, BackboardClient    *)
(* and JobStore.                                                           *)
(***************************************************************************)
EXTENDS Integers, Sequences, FiniteSets, TLC

\* Size of the AGENTS catalog (definitions.py has 21 entries); agent a is
\* AGENTS[a-1] and its key is identified with its catalog position.
NumAgents == 2

\* Number of requests of a run in which requests may overlap.
MaxRequests == 2
NumScenarios == 2
NumModels == 1
NumArchetypes == 1
NumTitles == 1

Agents == 1..NumAgents
Requests == 1..MaxRequests
Scenarios == 1..NumScenarios
Models == 1..NumModels
Archetypes == 1..NumArchetypes
Titles == 1..NumTitles

\* Python's None for an id that is not set yet.
None == <<0, "none", 0>>

\* The id the upstream returns to the create call that request r makes at
\* `site` (for the reactor's calls: in the coroutine of agent a).  Upstream
\* ids are opaque and distinct; naming an id after the call that created it
\* keeps two creations from ever returning the same id.
NewId(r, site, a) == <<r, site, a>>

VARIABLES
    api_key,      \* settings.backboard_api_key is configured
    request_type, \* send_message takes the keyword request_type
    concurrent,   \* the requests of the run may overlap (one event loop)
    session,      \* SessionThreads of the one session the requests name
    setup_calls,  \* create_assistant calls issued with caller reactor.setup
    req,          \* per request: handler, position, locals
    task,         \* per request and agent: the _get_agent_reaction coroutine
    job,          \* per request: the SimulationJob held by SimulationProgress
    calc,         \* a call of one function on its own: arguments and result
    promotion_cache, \* the committed rows of table promotion_cache
    agent_overrides  \* the committed rows of table agent_overrides

vars == <<api_key, request_type, concurrent, session, setup_calls, req, task, job, calc,
          promotion_cache, agent_overrides>>

(***************************************************************************)
(* SimulationPhase, PHASE_WEIGHTS, PHASE_START_PROGRESS                    *)
(***************************************************************************)
PhaseOrder == <<"initializing", "interpreting", "analyzing_impact",
                "agent_reactions", "coalition_synthesis",
                "generating_townhall", "finalizing">>

PHASE_WEIGHTS ==
    [initializing |-> 5, interpreting |-> 10, analyzing_impact |-> 10,
     agent_reactions |-> 50, coalition_synthesis |-> 10,
     generating_townhall |-> 10, finalizing |-> 5]

RECURSIVE Cumulative(_)
\* _cumulative after the first n phases of PHASE_WEIGHTS have been added.
Cumulative(n) ==
    IF n = 0 THEN 0 ELSE Cumulative(n - 1) + PHASE_WEIGHTS[PhaseOrder[n]]

PhaseIndex(p) == CHOOSE i \in 1..Len(PhaseOrder) : PhaseOrder[i] = p

\* PHASE_START_PROGRESS[phase]: the cumulative weight before the phase.
PHASE_START_PROGRESS(p) == Cumulative(PhaseIndex(p) - 1)

\* job.progress is a float; the model keeps it exactly, in units of
\* 1/NumAgents of a percent (total_agents is len(AGENTS) in every job).
Pct(n) == n * NumAgents

(***************************************************************************)
(* Records                                                                 *)
(***************************************************************************)
\* SessionThreads(session_id): every handle unset, both maps empty.
\* agent_order is the insertion order of the agent_threads dict.
\* A key that is not in session.relationships.  Scores are floats in
\* [-1, 1]; the model keeps scores and deltas in tenths.
NoEdge == [present |-> FALSE, score |-> 0]

\* SessionThreads declares no last_job_id: the attribute exists on a
\* session object only once start_simulation has assigned it.
NoAttribute == <<0, "no attribute", 0>>

NewSession ==
    [interpreter_assistant_id |-> None,
     interpreter_thread_id    |-> None,
     reactor_assistant_id     |-> None,
     agent_threads            |-> [a \in Agents |-> None],
     agent_order              |-> <<>>,
     townhall_assistant_id    |-> None,
     townhall_thread_id       |-> None,
     dm_assistant_id          |-> None,
     dm_threads               |-> [k \in Agents \X Agents |-> None],
     relationships            |-> [k \in Agents \X Agents |-> NoEdge],
     last_job_id              |-> NoAttribute,
     world_state              |-> [version |-> 0, adopted_policies |-> <<>>]]

\* SimulationJob(job_id, session_id, request_payload, status="pending").
NewJob ==
    [status            |-> "pending",
     progress          |-> 0,
     phase             |-> "initializing",
     completed_agents  |-> 0,
     total_agents      |-> 0,
     partial_reactions |-> <<>>,
     result            |-> FALSE,
     error             |-> FALSE,
     completed_at      |-> FALSE]

\* hashlib.md5(text).hexdigest(), a digest that tells its inputs apart.
Md5(x) == <<"md5", x>>
NoHash == Md5(0)

\* No cache key and no stored result.
NoKey == <<0, NoHash, <<>>, <<>>, "none">>
NoResult == [response |-> "none", run |-> 0]

\* The arguments and locals of the handlers that use the database.
NoLocals ==
    [fn         |-> "none",  \* the handler
     run        |-> 0,       \* the request that runs it
     after      |-> {},      \* the requests that had returned when it began
     scenario   |-> 0,       \* scenario_id (0: no such scenario)
     title      |-> 0,       \* promote: request.proposal
     overrides  |-> [a \in Agents |-> 0],  \* promote: request.agent_overrides
     agent      |-> 0,       \* overrides: agent_key (0: no such agent)
     model      |-> 0,       \* overrides: update.model (0: None, -1: not allowed)
     archetype  |-> 0,       \* overrides: update.archetype_override (0: None)
     found      |-> FALSE,   \* overrides: the select returned a row
     cache_key  |-> NoKey,
     result     |-> NoResult,
     simulated  |-> FALSE]   \* promote: ai_chat was called

\* A request slot that has not been used.
\* No structured reply has arrived.
NoReply ==
    [json |-> "none", delta_type |-> "missing", relationship_delta |-> 0,
     stance_changed |-> FALSE, new_intensity |-> "null"]

\* No structured reply has been handled.
NoDm ==
    [reply |-> NoReply, from |-> 0, to |-> 0, relationship_delta |-> 0,
     stance_changed |-> FALSE, relationship_score |-> 0]

IdleReq ==
    [kind      |-> "idle",
     pc        |-> "idle",
     failing   |-> {},      \* agents whose prompt assembly raises
     interp    |-> "none",  \* InterpretResult: none | ok | fail (ok=False) |
                            \* error (ok=False made from a BackboardError)
     thread    |-> None,    \* thread of the upstream call in flight
     order     |-> <<>>,    \* agents in the order their coroutines finished
     reactions |-> <<>>,    \* the reactor's reactions list
     reported  |-> <<>>,    \* reactions handed to progress_callback
     target    |-> 0,       \* adopt: position in agent_threads.items()
     size      |-> 0,       \* adopt: len(agent_threads) when iteration began
     written   |-> <<>>,    \* adopt: written_threads
     sent      |-> <<>>,    \* adopt: the sends that returned and whether they
                            \* succeeded (kept in the runs of one request)
     from      |-> 0,       \* dm: from_agent_key
     to        |-> 0,       \* dm: to_agent_key
     titled    |-> FALSE,   \* dm: request.proposal_title is given
     shift     |-> FALSE,   \* dm: reply reports stance_changed, title given
     dm        |-> NoDm,    \* dm: the structured reply, the update made and
                            \* the score returned (kept in the runs of one
                            \* request)
     transcript |-> "none", \* town hall: none | parsed | fallback
     response  |-> "none",  \* what the handler returned
     call      |-> NoLocals]

\* `model` holds the model of the send_message call the coroutine made.
IdleTask == [pc |-> "idle", thread |-> None, result |-> "none", model |-> {}]

\* AgentReaction, reduced to the fields the orchestration reads.
Reaction(a, fb) == [agent_key |-> a, fallback |-> fb]

\* AgentReactor._fallback_reaction(agent)
FallbackReaction(a) == Reaction(a, TRUE)

\* AgentReactor._parse_reaction(response_text, agent): a reply that decodes
\* gives the agent's reaction, any other reply the fallback reaction.
ParseReaction(a, decodes) == Reaction(a, ~decodes)

(***************************************************************************)
(* Initial states                                                          *)
(***************************************************************************)
InitCommon ==
    /\ api_key \in BOOLEAN
    /\ request_type \in BOOLEAN
    /\ session = NewSession
    /\ setup_calls = 0
    /\ req = [r \in Requests |-> IdleReq]
    /\ task = [r \in Requests |-> [a \in Agents |-> IdleTask]]
    /\ job = [r \in Requests |-> NewJob]

\* No function is called on its own.
NoCall == [fn |-> "none"]

\* An agent without a row in agent_overrides.
NoOverride == [present |-> FALSE, model |-> 0, archetype |-> 0]

\* The two tables are empty.
InitDb ==
    /\ promotion_cache = {}
    /\ agent_overrides = [k \in Scenarios \X Agents |-> NoOverride]

\* One request on a fresh session.
Init == InitCommon /\ InitDb /\ concurrent = FALSE /\ calc = NoCall

\* No request is being handled (the client is the one of the repository).
InitIdle == InitCommon /\ InitDb /\ concurrent = FALSE /\ api_key /\ ~request_type

\* Requests that overlap on a fresh session.
InitSession == InitCommon /\ InitDb /\ concurrent = TRUE /\ calc = NoCall

\* A handler may be entered by the first request of the session, and by a
\* later one when the requests of the run may overlap.  Request slots are
\* taken in order: slot r is the r-th request to arrive.
MayStart(r) ==
    /\ req[r].kind = "idle"
    /\ \A q \in Requests : q < r => req[q].kind # "idle"
    /\ concurrent \/ \A q \in Requests : req[q].kind = "idle"

\* The agents whose prompt assembly raises are an input of a simulation
\* (the vicinity data of the request); the overlapping runs take requests
\* without vicinity data.
FailingInputs == IF concurrent THEN {{}} ELSE SUBSET Agents

\* request.scenario_id; overlapping requests are for the first scenario.
ScenarioInputs == IF concurrent THEN {1} ELSE Scenarios

\* ai_chat, called by promote_policy, returns its response to it
\* (sim_result, dumped into result_dict) or raises through it.
PromoteAfterChat(rec, response) ==
    IF response \in {"clarify", "full"}
    THEN [IdleReq EXCEPT !.kind = "promote", !.pc = "pr_commit",
                         !.call = [rec.call EXCEPT !.result = [response |-> response,
                                                               run |-> rec.call.run]]]
    ELSE [IdleReq EXCEPT !.kind = "promote", !.pc = "done", !.response = response,
                         !.call = rec.call]

\* The handler returns: its locals are gone, the response is kept.
Return(rec, response) ==
    IF rec.kind = "chat" /\ rec.call.fn = "promote"
    THEN PromoteAfterChat(rec, response)
    ELSE [IdleReq EXCEPT !.kind = rec.kind, !.pc = "done", !.response = response,
                         !.written = rec.written, !.sent = rec.sent,
                         !.dm = rec.dm, !.call = rec.call]

SetReq(r, rec) == req' = [req EXCEPT ![r] = rec]
SetTask(r, a, rec) == task' = [task EXCEPT ![r][a] = rec]
SetJob(r, rec) == job' = [job EXCEPT ![r] = rec]

(***************************************************************************)
(* SimulationProgress: each method rewrites the job record and saves it    *)
(***************************************************************************)
\* SimulationProgress.start(total_agents)
ProgressStart(j, n) ==
    [j EXCEPT !.status = "running", !.total_agents = n,
              !.phase = "initializing", !.progress = 0]

\* set_phase taking the phase's own weight for the progress at its start.
SetPhase_weight(j, p) ==
    [j EXCEPT !.phase = p, !.progress = Pct(PHASE_WEIGHTS[p])]

\* SimulationProgress.set_phase(phase, message)
SetPhase(j, p) ==
    [j EXCEPT !.phase = p, !.progress = Pct(PHASE_START_PROGRESS(p))]

\* agent_completed counting the completion twice.
AgentCompleted_twice(j, reaction) ==
    LET done == j.completed_agents + 2
    IN  [j EXCEPT !.completed_agents = done,
                  !.partial_reactions = Append(@, reaction),
                  !.progress = Pct(PHASE_START_PROGRESS("agent_reactions"))
                               + (Pct(done * PHASE_WEIGHTS["agent_reactions"])
                                  \div (2 * j.total_agents))]

\* SimulationProgress.agent_completed(agent_reaction, zone_sentiment)
AgentCompleted(j, reaction) ==
    LET done == j.completed_agents + 1
        base == PHASE_START_PROGRESS("agent_reactions")
        weight == PHASE_WEIGHTS["agent_reactions"]
    IN  [j EXCEPT !.completed_agents = done,
                  !.partial_reactions = Append(@, reaction),
                  !.progress = IF j.total_agents > 0
                               THEN Pct(base) + (Pct(done * weight) \div j.total_agents)
                               ELSE @]

\* complete that does not store the result.
Complete_noresult(j) ==
    [j EXCEPT !.status = "complete", !.phase = "complete",
              !.progress = Pct(100), !.completed_at = TRUE]

\* SimulationProgress.complete(result)
Complete(j) ==
    [j EXCEPT !.status = "complete", !.phase = "complete",
              !.progress = Pct(100), !.result = TRUE, !.completed_at = TRUE]

\* SimulationJob.get_status_response(): result and error are included
\* only under their status.
StatusResponse(j) ==
    [status |-> j.status, progress |-> j.progress, phase |-> j.phase,
     completed_agents |-> j.completed_agents, total_agents |-> j.total_agents,
     partial_reactions |-> j.partial_reactions,
     result |-> j.status = "complete" /\ j.result,
     error |-> j.status = "error" /\ j.error]

\* SimulationProgress.fail(error)
Fail(j) ==
    [j EXCEPT !.status = "error", !.phase = "error",
              !.error = TRUE, !.completed_at = TRUE]

(***************************************************************************)
(* ProposalInterpreter.interpret                                           *)
(*                                                                         *)
(* interpret and the reactor call send_message(..., request_type=...).     *)
(* BackboardClient.send_message declares no such parameter                 *)
(* (request_type = FALSE): the call raises TypeError before a request is   *)
(* sent and the caller's `except Exception` turns it into ok=False, or     *)
(* into the fallback reaction.  The client the two callers are written     *)
(* against takes the keyword (request_type = TRUE); the pipeline behind    *)
(* interpret is reachable only with it, so both clients are kept.          *)
(***************************************************************************)
\* The send_message call of interpret on thread th.
InterpretSend(rec, th) ==
    IF request_type THEN [rec EXCEPT !.pc = "interp_send", !.thread = th]
                    ELSE [rec EXCEPT !.pc = "interp_ret", !.interp = "fail"]

\* interpret up to its first await: get or create the interpreter thread.
InterpretCall(rec) ==
    IF session.interpreter_thread_id = None
    THEN IF session.interpreter_assistant_id = None
         THEN [rec EXCEPT !.pc = "interp_asst_wait"]
         ELSE [rec EXCEPT !.pc = "interp_thr_wait"]
    ELSE InterpretSend(rec, session.interpreter_thread_id)

\* create_assistant returns (or raises BackboardError) inside interpret.
InterpAsstDone(r) ==
    /\ req[r].pc = "interp_asst_wait"
    /\ \E ok \in BOOLEAN :
         IF ok
         THEN /\ session' = [session EXCEPT !.interpreter_assistant_id = NewId(r, "interpreter_assistant", 0)]
              /\ SetReq(r, [req[r] EXCEPT !.pc = "interp_thr_wait"])
         ELSE /\ SetReq(r, [req[r] EXCEPT !.pc = "interp_ret", !.interp = "error"])
              /\ UNCHANGED session
    /\ UNCHANGED <<promotion_cache, agent_overrides, calc, api_key, request_type, concurrent, setup_calls, task, job>>

\* create_thread returns inside interpret; the prompt is sent next.
InterpThrDone(r) ==
    /\ req[r].pc = "interp_thr_wait"
    /\ \E ok \in BOOLEAN :
         IF ok
         THEN /\ session' = [session EXCEPT !.interpreter_thread_id = NewId(r, "interpreter_thread", 0)]
              /\ SetReq(r, InterpretSend(req[r], NewId(r, "interpreter_thread", 0)))
         ELSE /\ SetReq(r, [req[r] EXCEPT !.pc = "interp_ret", !.interp = "error"])
              /\ UNCHANGED session
    /\ UNCHANGED <<promotion_cache, agent_overrides, calc, api_key, request_type, concurrent, setup_calls, task, job>>

\* send_message returns inside interpret: _parse_response gives a proposal
\* or ok=False; a BackboardError is caught and gives ok=False.
InterpSendDone(r) ==
    /\ req[r].pc = "interp_send"
    /\ \E out \in {"proposal", "unclear", "error"} :
         SetReq(r, [req[r] EXCEPT !.pc = "interp_ret", !.thread = None,
                       !.interp = IF out = "proposal" THEN "ok"
                                  ELSE IF out = "unclear" THEN "fail" ELSE "error"])
    /\ UNCHANGED <<promotion_cache, agent_overrides, calc, api_key, request_type, concurrent, session, setup_calls, task, job>>

(***************************************************************************)
(* AgentReactor._get_agent_reaction, one coroutine per request and agent   *)
(***************************************************************************)
\* The coroutine ends: its result is kept and it joins the completion order.
TaskEnds(r, a, res) ==
    /\ SetTask(r, a, [pc |-> "done", thread |-> None, result |-> res,
                      model |-> task[r][a].model])
    /\ SetReq(r, [req[r] EXCEPT !.order = IF req[r].kind = "simulate"
                                          THEN Append(@, a) ELSE @])

\* DEFAULT_MODEL of config.py; in an override row it stands for "no model".
\* Models are the other allowed models.
DEFAULT_MODEL == 0

\* The agent_override that get_all_reactions and
\* get_all_reactions_with_progress hand to the coroutine of agent a:
\* overrides.get(agent["key"]) of the agent_overrides argument, which
\* neither ai_chat nor run_progressive_simulation passes.
ReactorOverride(r, a) == NoOverride

\* _get_agent_reaction lines 301-305: the model of the override if it has
\* one, else the default.
ModelFor(agent_override) ==
    IF agent_override.present /\ agent_override.model # DEFAULT_MODEL
    THEN agent_override.model ELSE DEFAULT_MODEL

\* The send_message call of the reactor on thread th (lines 316-332);
\* without the keyword TypeError is caught and gives the fallback.
TaskSend(r, a, th) ==
    IF request_type
    THEN /\ SetTask(r, a, [task[r][a] EXCEPT !.pc = "sending", !.thread = th,
                                             !.model = {ModelFor(ReactorOverride(r, a))}])
         /\ UNCHANGED req
    ELSE TaskEnds(r, a, "fallback")

\* First run of the coroutine: prompt assembly (it raises for the agents of
\* `failing`, outside the try block), then _get_agent_thread up to its
\* first await.
TaskStart(r, a) ==
    /\ task[r][a].pc = "start"
    /\ IF a \in req[r].failing
         THEN TaskEnds(r, a, "raised") /\ UNCHANGED setup_calls
         ELSE IF session.agent_threads[a] # None
         THEN TaskSend(r, a, session.agent_threads[a]) /\ UNCHANGED setup_calls
         ELSE IF session.reactor_assistant_id = None
         THEN /\ SetTask(r, a, [task[r][a] EXCEPT !.pc = "asst_wait"])
              /\ setup_calls' = setup_calls + 1
              /\ UNCHANGED req
         ELSE /\ SetTask(r, a, [task[r][a] EXCEPT !.pc = "thr_wait"])
              /\ UNCHANGED <<req, setup_calls>>
    /\ UNCHANGED <<promotion_cache, agent_overrides, calc, api_key, request_type, concurrent, session, job>>

\* create_assistant returns in _get_agent_thread: the id is stored and
\* create_thread is called.
TaskAsstDone(r, a) ==
    /\ task[r][a].pc = "asst_wait"
    /\ \E ok \in BOOLEAN :
         IF ok
         THEN /\ session' = [session EXCEPT !.reactor_assistant_id = NewId(r, "reactor_assistant", a)]
              /\ SetTask(r, a, [task[r][a] EXCEPT !.pc = "thr_wait"])
              /\ UNCHANGED req
         ELSE /\ TaskEnds(r, a, "fallback")
              /\ UNCHANGED session
    /\ UNCHANGED <<promotion_cache, agent_overrides, calc, api_key, request_type, concurrent, setup_calls, job>>

\* session.agent_threads[agent_key] = thread_id
BindThread(s, a, id) ==
    [s EXCEPT !.agent_threads[a] = id,
              !.agent_order = IF s.agent_threads[a] = None THEN Append(@, a) ELSE @]

\* create_thread returns in _get_agent_thread: the thread is bound to the
\* agent and the prompt is sent on it.
TaskThrDone(r, a) ==
    /\ task[r][a].pc = "thr_wait"
    /\ \E ok \in BOOLEAN :
         IF ok
         THEN /\ session' = BindThread(session, a, NewId(r, "agent_thread", a))
              /\ TaskSend(r, a, NewId(r, "agent_thread", a))
         ELSE /\ TaskEnds(r, a, "fallback")
              /\ UNCHANGED session
    /\ UNCHANGED <<promotion_cache, agent_overrides, calc, api_key, request_type, concurrent, setup_calls, job>>

\* send_message returns in _get_agent_reaction: the reply is parsed; a
\* BackboardError gives the fallback reaction.
TaskSendDone(r, a) ==
    /\ task[r][a].pc = "sending"
    /\ \E out \in {"decodes", "garbled", "error"} :
         TaskEnds(r, a, IF ParseReaction(a, out = "decodes").fallback
                        THEN "fallback" ELSE "reaction")
    /\ UNCHANGED <<promotion_cache, agent_overrides, calc, api_key, request_type, concurrent, session, setup_calls, job>>

\* What the coroutine of agent a returned (it did not raise).
TaskReaction(r, a) == Reaction(a, task[r][a].result = "fallback")

\* The fan-out: one coroutine per catalog agent.
Launch(r) == task' = [task EXCEPT ![r] = [a \in Agents |-> [IdleTask EXCEPT !.pc = "start"]]]

AllTasksDone(r) == \A a \in Agents : task[r][a].pc = "done"

(***************************************************************************)
(* TownHallGenerator.generate                                              *)
(***************************************************************************)
\* generate up to its first await: get or create the town hall thread.
TownhallCall(rec) ==
    IF session.townhall_thread_id = None
    THEN IF session.townhall_assistant_id = None
         THEN [rec EXCEPT !.pc = "th_asst_wait"]
         ELSE [rec EXCEPT !.pc = "th_thr_wait"]
    ELSE [rec EXCEPT !.pc = "th_send", !.thread = session.townhall_thread_id]

\* create_assistant returns inside generate; an error gives the fallback
\* transcript.
ThAsstDone(r) ==
    /\ req[r].pc = "th_asst_wait"
    /\ \E ok \in BOOLEAN :
         IF ok
         THEN /\ session' = [session EXCEPT !.townhall_assistant_id = NewId(r, "townhall_assistant", 0)]
              /\ SetReq(r, [req[r] EXCEPT !.pc = "th_thr_wait"])
         ELSE /\ SetReq(r, [req[r] EXCEPT !.pc = "th_ret", !.transcript = "fallback"])
              /\ UNCHANGED session
    /\ UNCHANGED <<promotion_cache, agent_overrides, calc, api_key, request_type, concurrent, setup_calls, task, job>>

\* create_thread returns inside generate; the prompt is sent next.
ThThrDone(r) ==
    /\ req[r].pc = "th_thr_wait"
    /\ \E ok \in BOOLEAN :
         IF ok
         THEN /\ session' = [session EXCEPT !.townhall_thread_id = NewId(r, "townhall_thread", 0)]
              /\ SetReq(r, [req[r] EXCEPT !.pc = "th_send", !.thread = NewId(r, "townhall_thread", 0)])
         ELSE /\ SetReq(r, [req[r] EXCEPT !.pc = "th_ret", !.transcript = "fallback"])
              /\ UNCHANGED session
    /\ UNCHANGED <<promotion_cache, agent_overrides, calc, api_key, request_type, concurrent, setup_calls, task, job>>

\* send_message returns inside generate.
ThSendDone(r) ==
    /\ req[r].pc = "th_send"
    /\ \E out \in {"transcript", "short", "error"} :
         SetReq(r, [req[r] EXCEPT !.pc = "th_ret", !.thread = None,
                       !.transcript = IF out = "transcript" THEN "parsed" ELSE "fallback"])
    /\ UNCHANGED <<promotion_cache, agent_overrides, calc, api_key, request_type, concurrent, session, setup_calls, task, job>>

(***************************************************************************)
(* ai_chat: the synchronous simulation                                     *)
(***************************************************************************)
\* get_all_reactions leaving the failed results out of the list.
GatherReactions_filtered(r) ==
    LET results == [i \in Agents |-> [agent_key |-> i,
                                      fallback |-> task[r][i].result = "fallback",
                                      raised |-> task[r][i].result = "raised"]]
        kept == SelectSeq(results, LAMBDA x : ~x.raised)
    IN  [i \in 1..Len(kept) |-> Reaction(kept[i].agent_key, kept[i].fallback)]

\* Lines 98-111 of get_all_reactions: the gathered results in catalog
\* order, a raised exception replaced by the fallback of AGENTS[i].
GatherReactions(r) ==
    [i \in Agents |-> IF task[r][i].result = "raised"
                      THEN FallbackReaction(i)
                      ELSE TaskReaction(r, i)]

\* POST /ai/chat up to the first await of interpret.  BackboardClient()
\* raises BackboardError without an api key: HTTP 502.
StartChat(r) ==
    /\ MayStart(r)
    /\ \E failing \in FailingInputs, s \in ScenarioInputs :
         LET rec == [IdleReq EXCEPT !.kind = "chat", !.call.scenario = s]
         IN  SetReq(r, IF api_key
                       THEN InterpretCall([rec EXCEPT !.failing = failing])
                       ELSE Return(rec, "http502"))
    /\ UNCHANGED <<promotion_cache, agent_overrides, calc, api_key, request_type, concurrent, session, setup_calls, task, job>>

\* ChatAfterInterpret without the test of interpret_result.ok.
ChatAfterInterpret_launch(r) ==
    /\ req[r].kind = "chat" /\ req[r].pc = "interp_ret"
    /\ SetReq(r, [req[r] EXCEPT !.pc = "gather"])
    /\ Launch(r)
    /\ UNCHANGED <<promotion_cache, agent_overrides, calc, api_key, request_type, concurrent, session, setup_calls, job>>

\* interpret returned: the clarification response, or the fan-out of
\* get_all_reactions.
ChatAfterInterpret(r) ==
    /\ req[r].kind = "chat" /\ req[r].pc = "interp_ret"
    /\ IF req[r].interp = "ok"
       THEN /\ SetReq(r, [req[r] EXCEPT !.pc = "gather"])
            /\ Launch(r)
       ELSE /\ SetReq(r, Return(req[r], "clarify"))
            /\ UNCHANGED task
    /\ UNCHANGED <<promotion_cache, agent_overrides, calc, api_key, request_type, concurrent, session, setup_calls, job>>

\* asyncio.gather returned (the coroutines are finished and consumed):
\* reactions, zones, then the town hall.
ChatGather(r) ==
    /\ req[r].kind = "chat" /\ req[r].pc = "gather"
    /\ AllTasksDone(r)
    /\ SetReq(r, TownhallCall([req[r] EXCEPT !.reactions = GatherReactions(r)]))
    /\ task' = [task EXCEPT ![r] = [a \in Agents |-> IdleTask]]
    /\ UNCHANGED <<promotion_cache, agent_overrides, calc, api_key, request_type, concurrent, session, setup_calls, job>>

\* generate returned: the MultiAgentResponse is built and returned.
ChatRespond(r) ==
    /\ req[r].kind = "chat" /\ req[r].pc = "th_ret"
    /\ SetReq(r, Return(req[r], "full"))
    /\ UNCHANGED <<promotion_cache, agent_overrides, calc, api_key, request_type, concurrent, session, setup_calls, task, job>>

(***************************************************************************)
(* start_simulation and run_progressive_simulation                         *)
(***************************************************************************)
\* What one completion of the as_completed loop appends to reactions
\* (lines 156-186): the coroutine's result, or, if it raised, the fallback
\* of AGENTS[len(reactions)].
StreamReaction(r, a) ==
    IF task[r][a].result = "raised"
    THEN FallbackReaction(Len(req[r].reactions) + 1)
    ELSE TaskReaction(r, a)

\* The loop taking the coroutines in the order they were launched.
NextCompleted_launched(r) == Len(req[r].reactions) + 1

\* The coroutine as_completed yields next: the earliest finished one that
\* has not been consumed.
NextCompleted(r) == req[r].order[Len(req[r].reactions) + 1]

\* POST /ai/simulate: the job is created and the background task queued.
StartSimulate(r) ==
    /\ MayStart(r)
    /\ \E failing \in FailingInputs, s \in ScenarioInputs :
         SetReq(r, [IdleReq EXCEPT !.kind = "simulate", !.pc = "bg", !.failing = failing,
                                   !.call.scenario = s])
    /\ SetJob(r, NewJob)
    /\ session' = [session EXCEPT !.last_job_id = NewId(r, "job", 0)]
    /\ UNCHANGED <<promotion_cache, agent_overrides, calc, api_key, request_type, concurrent, setup_calls, task>>

\* progress.start(total_agents=len(AGENTS))
ProgStart(r) ==
    /\ req[r].pc = "bg"
    /\ SetJob(r, ProgressStart(job[r], NumAgents))
    /\ SetReq(r, [req[r] EXCEPT !.pc = "p_started"])
    /\ UNCHANGED <<promotion_cache, agent_overrides, calc, api_key, request_type, concurrent, session, setup_calls, task>>

\* Lines 369-397: BackboardClient() raises without an api key and the
\* handler fails the job; otherwise the job enters INTERPRETING.
ProgBegin(r) ==
    /\ req[r].pc = "p_started"
    /\ IF api_key
       THEN /\ SetJob(r, SetPhase(job[r], "interpreting"))
            /\ SetReq(r, [req[r] EXCEPT !.pc = "p_interp"])
       ELSE /\ SetJob(r, Fail(job[r]))
            /\ SetReq(r, Return(req[r], "job_error"))
    /\ UNCHANGED <<promotion_cache, agent_overrides, calc, api_key, request_type, concurrent, session, setup_calls, task>>

\* interpreter.interpret(effective_message, session_id) is entered.
ProgInterpret(r) ==
    /\ req[r].pc = "p_interp"
    /\ SetReq(r, InterpretCall(req[r]))
    /\ UNCHANGED <<promotion_cache, agent_overrides, calc, api_key, request_type, concurrent, session, setup_calls, task, job>>

\* The orchestrator going on after it failed the job.
ProgAfterInterpret_noreturn(r) ==
    /\ req[r].kind = "simulate" /\ req[r].pc = "interp_ret"
    /\ IF req[r].interp = "ok"
       THEN SetJob(r, SetPhase(job[r], "analyzing_impact"))
       ELSE SetJob(r, Fail(job[r]))
    /\ SetReq(r, [req[r] EXCEPT !.pc = "p_analyze"])
    /\ UNCHANGED <<promotion_cache, agent_overrides, calc, api_key, request_type, concurrent, session, setup_calls, task>>

\* The orchestrator returning on a failed interpretation without failing
\* the job.
ProgAfterInterpret_nofail(r) ==
    /\ req[r].kind = "simulate" /\ req[r].pc = "interp_ret"
    /\ IF req[r].interp = "ok"
       THEN /\ SetJob(r, SetPhase(job[r], "analyzing_impact"))
            /\ SetReq(r, [req[r] EXCEPT !.pc = "p_analyze"])
       ELSE /\ SetReq(r, Return(req[r], "job_error"))
            /\ UNCHANGED job
    /\ UNCHANGED <<promotion_cache, agent_overrides, calc, api_key, request_type, concurrent, session, setup_calls, task>>

\* interpret returned: the job fails, or enters ANALYZING_IMPACT.
ProgAfterInterpret(r) ==
    /\ req[r].kind = "simulate" /\ req[r].pc = "interp_ret"
    /\ IF req[r].interp = "ok"
       THEN /\ SetJob(r, SetPhase(job[r], "analyzing_impact"))
            /\ SetReq(r, [req[r] EXCEPT !.pc = "p_analyze"])
       ELSE /\ SetJob(r, Fail(job[r]))
            /\ SetReq(r, Return(req[r], "job_error"))
    /\ UNCHANGED <<promotion_cache, agent_overrides, calc, api_key, request_type, concurrent, session, setup_calls, task>>

\* The job enters AGENT_REACTIONS.
ProgAgentPhase(r) ==
    /\ req[r].pc = "p_analyze"
    /\ SetJob(r, SetPhase(job[r], "agent_reactions"))
    /\ SetReq(r, [req[r] EXCEPT !.pc = "p_react"])
    /\ UNCHANGED <<promotion_cache, agent_overrides, calc, api_key, request_type, concurrent, session, setup_calls, task>>

\* get_all_reactions_with_progress is entered: the fan-out.
ProgFanOut(r) ==
    /\ req[r].pc = "p_react"
    /\ SetReq(r, [req[r] EXCEPT !.pc = "stream"])
    /\ Launch(r)
    /\ UNCHANGED <<promotion_cache, agent_overrides, calc, api_key, request_type, concurrent, session, setup_calls, job>>

\* One round of the as_completed loop: the reaction is appended and handed
\* to progress.agent_completed.
ProgConsume(r) ==
    /\ req[r].pc = "stream"
    /\ Len(req[r].reactions) < Len(req[r].order)
    /\ LET x == StreamReaction(r, NextCompleted(r))
       IN  /\ SetReq(r, [req[r] EXCEPT !.reactions = Append(@, x),
                                       !.reported = Append(@, x)])
           /\ SetJob(r, AgentCompleted(job[r], x))
    /\ UNCHANGED <<promotion_cache, agent_overrides, calc, api_key, request_type, concurrent, session, setup_calls, task>>

\* The orchestrator entering GENERATING_TOWNHALL straight from the loop.
ProgCoalition_skip(r) ==
    /\ req[r].pc = "stream"
    /\ Len(req[r].reactions) = NumAgents
    /\ SetJob(r, SetPhase(job[r], "generating_townhall"))
    /\ SetReq(r, [req[r] EXCEPT !.pc = "p_th"])
    /\ task' = [task EXCEPT ![r] = [a \in Agents |-> IdleTask]]
    /\ UNCHANGED <<promotion_cache, agent_overrides, calc, api_key, request_type, concurrent, session, setup_calls>>

\* The orchestrator leaving the loop before its last round.
ProgCoalition_early(r) ==
    /\ req[r].pc = "stream"
    /\ Len(req[r].reactions) >= NumAgents - 1
    /\ SetJob(r, SetPhase(job[r], "coalition_synthesis"))
    /\ SetReq(r, [req[r] EXCEPT !.pc = "p_coal"])
    /\ task' = [task EXCEPT ![r] = [a \in Agents |-> IdleTask]]
    /\ UNCHANGED <<promotion_cache, agent_overrides, calc, api_key, request_type, concurrent, session, setup_calls>>

\* The loop is exhausted: the job enters COALITION_SYNTHESIS.
ProgCoalition(r) ==
    /\ req[r].pc = "stream"
    /\ Len(req[r].reactions) = NumAgents
    /\ SetJob(r, SetPhase(job[r], "coalition_synthesis"))
    /\ SetReq(r, [req[r] EXCEPT !.pc = "p_coal"])
    /\ task' = [task EXCEPT ![r] = [a \in Agents |-> IdleTask]]
    /\ UNCHANGED <<promotion_cache, agent_overrides, calc, api_key, request_type, concurrent, session, setup_calls>>

\* aggregate(reactions), then the job enters GENERATING_TOWNHALL.
ProgTownhallPhase(r) ==
    /\ req[r].pc = "p_coal"
    /\ SetJob(r, SetPhase(job[r], "generating_townhall"))
    /\ SetReq(r, [req[r] EXCEPT !.pc = "p_th"])
    /\ UNCHANGED <<promotion_cache, agent_overrides, calc, api_key, request_type, concurrent, session, setup_calls, task>>

\* townhall_gen.generate(proposal, reactions, session_id) is entered.
ProgTownhall(r) ==
    /\ req[r].pc = "p_th"
    /\ SetReq(r, TownhallCall(req[r]))
    /\ UNCHANGED <<promotion_cache, agent_overrides, calc, api_key, request_type, concurrent, session, setup_calls, task, job>>

\* generate returned: the job enters FINALIZING.
ProgFinalizing(r) ==
    /\ req[r].kind = "simulate" /\ req[r].pc = "th_ret"
    /\ SetJob(r, SetPhase(job[r], "finalizing"))
    /\ SetReq(r, [req[r] EXCEPT !.pc = "p_final"])
    /\ UNCHANGED <<promotion_cache, agent_overrides, calc, api_key, request_type, concurrent, session, setup_calls, task>>

\* progress.complete(result.model_dump())
ProgComplete(r) ==
    /\ req[r].pc = "p_final"
    /\ SetJob(r, Complete(job[r]))
    /\ SetReq(r, Return(req[r], "job_complete"))
    /\ UNCHANGED <<promotion_cache, agent_overrides, calc, api_key, request_type, concurrent, session, setup_calls, task>>

(***************************************************************************)
(* adopt_proposal                                                          *)
(***************************************************************************)
\* Names under which adopt records the interpreter and town hall threads
\* in written_threads, next to the agent keys.
InterpreterName == NumAgents + 1
TownhallName == NumAgents + 2

\* Lines 668-683: the town hall thread, if any, then the response.
AdoptTownhall(rec) ==
    IF session.townhall_thread_id # None
    THEN [rec EXCEPT !.pc = "adopt_th_send", !.thread = session.townhall_thread_id]
    ELSE Return(rec, "adopted")

\* Lines 660-666: the interpreter thread, if any.
AdoptInterpreter(rec) ==
    IF session.interpreter_thread_id # None
    THEN [rec EXCEPT !.pc = "adopt_interp_send", !.thread = session.interpreter_thread_id]
    ELSE AdoptTownhall(rec)

\* Line 652, one step of `for agent_key, thread_id in agent_threads.items()`:
\* the dict iterator raises RuntimeError if the dict changed size, which
\* no handler of adopt catches (HTTP 500); otherwise the next item is read
\* and the note is sent on its thread.
AdoptNextAgent(rec) ==
    IF Len(session.agent_order) # rec.size
    THEN Return(rec, "http500")
    ELSE IF rec.target < rec.size
    THEN [rec EXCEPT !.pc = "adopt_agent_send",
                     !.thread = session.agent_threads[session.agent_order[rec.target + 1]]]
    ELSE AdoptInterpreter(rec)

\* The send on the thread recorded under `name` returned.
Sent(rec, name, ok) ==
    [rec EXCEPT !.written = IF ok THEN Append(@, name) ELSE @,
                !.sent = IF concurrent THEN @ ELSE Append(@, <<name, ok>>)]

\* POST /ai/adopt up to its first await.
StartAdopt(r) ==
    /\ MayStart(r)
    /\ SetReq(r, IF api_key
                 THEN AdoptNextAgent([IdleReq EXCEPT !.kind = "adopt",
                                                     !.size = Len(session.agent_order)])
                 ELSE Return([IdleReq EXCEPT !.kind = "adopt"], "http502"))
    /\ UNCHANGED <<promotion_cache, agent_overrides, calc, api_key, request_type, concurrent, session, setup_calls, task, job>>

\* AdoptAgentSent with a failed send leaving through the outer handler.
AdoptAgentSent_stop(r) ==
    /\ req[r].pc = "adopt_agent_send"
    /\ \E ok \in BOOLEAN :
         SetReq(r, IF ok
                   THEN AdoptNextAgent(
                          [Sent(req[r], session.agent_order[req[r].target + 1], ok)
                              EXCEPT !.target = @ + 1])
                   ELSE Return(Sent(req[r], session.agent_order[req[r].target + 1], ok),
                               "http502"))
    /\ UNCHANGED <<promotion_cache, agent_overrides, calc, api_key, request_type, concurrent, session, setup_calls, task, job>>

\* The send to an agent thread returned (lines 653-658).
AdoptAgentSent(r) ==
    /\ req[r].pc = "adopt_agent_send"
    /\ \E ok \in BOOLEAN :
         SetReq(r, AdoptNextAgent(
                [Sent(req[r], session.agent_order[req[r].target + 1], ok)
                    EXCEPT !.target = @ + 1]))
    /\ UNCHANGED <<promotion_cache, agent_overrides, calc, api_key, request_type, concurrent, session, setup_calls, task, job>>

\* The send to the interpreter thread returned.
AdoptInterpreterSent(r) ==
    /\ req[r].pc = "adopt_interp_send"
    /\ \E ok \in BOOLEAN :
         SetReq(r, AdoptTownhall(Sent(req[r], InterpreterName, ok)))
    /\ UNCHANGED <<promotion_cache, agent_overrides, calc, api_key, request_type, concurrent, session, setup_calls, task, job>>

\* The send to the town hall thread returned.
AdoptTownhallSent(r) ==
    /\ req[r].pc = "adopt_th_send"
    /\ \E ok \in BOOLEAN :
         SetReq(r, Return(Sent(req[r], TownhallName, ok), "adopted"))
    /\ UNCHANGED <<promotion_cache, agent_overrides, calc, api_key, request_type, concurrent, session, setup_calls, task, job>>

\* The insertion orders agent_threads can have: the agents that have a
\* thread, each once.
AgentOrders ==
    {o \in UNION {[1..n -> Agents] : n \in 0..NumAgents} :
        \A i, j \in DOMAIN o : i # j => o[i] # o[j]}

\* The session after earlier requests created threads for the agents of
\* `order`, and the interpreter and town hall threads or not.
EarlierSession(order, interp, th) ==
    [NewSession EXCEPT
        !.agent_order = order,
        !.agent_threads = [a \in Agents |->
                              IF \E i \in DOMAIN order : order[i] = a
                              THEN NewId(0, "agent_thread", a) ELSE None],
        !.reactor_assistant_id = IF order # <<>> THEN NewId(0, "reactor_assistant", 0)
                                 ELSE None,
        !.interpreter_assistant_id = IF interp THEN NewId(0, "interpreter_assistant", 0)
                                     ELSE None,
        !.interpreter_thread_id = IF interp THEN NewId(0, "interpreter_thread", 0)
                                  ELSE None,
        !.townhall_assistant_id = IF th THEN NewId(0, "townhall_assistant", 0) ELSE None,
        !.townhall_thread_id = IF th THEN NewId(0, "townhall_thread", 0) ELSE None]

\* One adopt request on a session that earlier requests have used.  With
\* the client of the repository those requests got no further than the
\* interpreter.
InitAdopt ==
    /\ api_key \in BOOLEAN
    /\ request_type \in BOOLEAN
    /\ session \in {EarlierSession(o, i, t) :
                       o \in IF request_type THEN AgentOrders ELSE {<<>>},
                       i \in BOOLEAN,
                       t \in IF request_type THEN BOOLEAN ELSE {FALSE}}
    /\ setup_calls = 0
    /\ req = [r \in Requests |-> IdleReq]
    /\ task = [r \in Requests |-> [a \in Agents |-> IdleTask]]
    /\ job = [r \in Requests |-> NewJob]
    /\ InitDb /\ concurrent = FALSE /\ calc = NoCall

\* The steps of adopt_proposal.
NextAdopt ==
    \E r \in Requests :
        \/ StartAdopt(r) \/ AdoptAgentSent(r) \/ AdoptInterpreterSent(r)
        \/ AdoptTownhallSent(r)

\* One adopt request.
SpecAdopt == InitAdopt /\ [][NextAdopt]_vars

(***************************************************************************)
(* SessionThreads.update_relationship and send_dm                          *)
(***************************************************************************)
\* The bound of a relationship score, 1.0 (scores are in tenths).
ScoreMax == 10

\* The deltas of the calls: none, half a unit and more than the whole range.
Deltas == {0 - 15, 0 - 5, 0, 5, 15}

\* Clamp without its bounds.
Clamp_off(x) == x

\* max(-1.0, min(1.0, x))
Clamp(x) ==
    LET m == IF x < ScoreMax THEN x ELSE ScoreMax
    IN  IF m > 0 - ScoreMax THEN m ELSE 0 - ScoreMax

\* session.relationships after update_relationship(from_agent, to_agent,
\* delta): the edge is created with score 0.0 if its key is absent, then
\* its score is set.
UpdatedRelationships(relationships, from_agent, to_agent, delta) ==
    LET key == <<from_agent, to_agent>>
        edge == IF relationships[key].present THEN relationships[key]
                ELSE [present |-> TRUE, score |-> 0]
    IN  [relationships EXCEPT ![key] = [edge EXCEPT !.score = Clamp(edge.score + delta)]]

\* SessionThreads.get_dm_thread_key(agent_a, agent_b)
DmKey(a, b) == <<IF a < b THEN a ELSE b, IF a < b THEN b ELSE a>>

\* StanceUpdate.relationship_delta is declared with ge=-1, le=1 (tenths).
DeltaMax == 10

\* What the structured follow-up can answer: text that is not JSON, JSON
\* that is not an object, or an object whose relationship_delta is
\* missing, null, text that is no number, or a number, and whose
\* new_intensity is null, a number or text that is no number.
StructuredReplies ==
    {[json |-> j, delta_type |-> "missing", relationship_delta |-> 0,
      stance_changed |-> FALSE, new_intensity |-> "null"] : j \in {"invalid", "other"}}
    \cup {[json |-> "object", delta_type |-> dt, relationship_delta |-> 0,
           stance_changed |-> sc, new_intensity |-> ni] :
              dt \in {"missing", "null", "text"}, sc \in BOOLEAN,
              ni \in {"null", "number", "text"}}
    \cup {[json |-> "object", delta_type |-> "number", relationship_delta |-> d,
           stance_changed |-> sc, new_intensity |-> ni] :
              d \in Deltas, sc \in BOOLEAN, ni \in {"null", "number", "text"}}

\* Overlapping requests get well-formed structured replies without a
\* change of score, and name a proposal.
StructuredInputs ==
    IF concurrent
    THEN {x \in StructuredReplies :
             /\ x.json = "object" /\ x.delta_type = "number"
             /\ x.relationship_delta = 0 /\ x.new_intensity = "null"}
    ELSE StructuredReplies

TitledInputs == IF concurrent THEN {TRUE} ELSE BOOLEAN

\* POST /ai/dm up to its first await: get or create the pair thread, then
\* send the message on it.
StartDm(r) ==
    /\ MayStart(r)
    /\ \E f \in Agents, t \in Agents, titled \in TitledInputs :
         LET rec == [IdleReq EXCEPT !.kind = "dm", !.from = f, !.to = t,
                                    !.titled = titled]
             th  == session.dm_threads[DmKey(f, t)]
         IN  SetReq(r, IF ~api_key
                       THEN Return(rec, "http502")
                       ELSE IF th # None
                       THEN [rec EXCEPT !.pc = "dm_send1", !.thread = th]
                       ELSE IF session.dm_assistant_id = None
                       THEN [rec EXCEPT !.pc = "dm_asst_wait"]
                       ELSE [rec EXCEPT !.pc = "dm_thr_wait"])
    /\ UNCHANGED <<promotion_cache, agent_overrides, calc, api_key, request_type, concurrent, session, setup_calls, task, job>>

\* create_assistant returns in send_dm; a BackboardError is HTTP 502.
DmAsstDone(r) ==
    /\ req[r].pc = "dm_asst_wait"
    /\ \E ok \in BOOLEAN :
         IF ok
         THEN /\ session' = [session EXCEPT !.dm_assistant_id = NewId(r, "dm_assistant", 0)]
              /\ SetReq(r, [req[r] EXCEPT !.pc = "dm_thr_wait"])
         ELSE /\ SetReq(r, Return(req[r], "http502"))
              /\ UNCHANGED session
    /\ UNCHANGED <<promotion_cache, agent_overrides, calc, api_key, request_type, concurrent, setup_calls, task, job>>

\* create_thread returns in send_dm: the pair thread is stored and the
\* message is sent on session.dm_threads[dm_key].
DmThrDone(r) ==
    /\ req[r].pc = "dm_thr_wait"
    /\ \E ok \in BOOLEAN :
         IF ok
         THEN /\ session' = [session EXCEPT !.dm_threads[DmKey(req[r].from, req[r].to)] = NewId(r, "dm_thread", 0)]
              /\ SetReq(r, [req[r] EXCEPT !.pc = "dm_send1", !.thread = NewId(r, "dm_thread", 0)])
         ELSE /\ SetReq(r, Return(req[r], "http502"))
              /\ UNCHANGED session
    /\ UNCHANGED <<promotion_cache, agent_overrides, calc, api_key, request_type, concurrent, setup_calls, task, job>>

\* The recipient's reply arrived: the structured follow-up is sent on the
\* same thread.
DmReplied(r) ==
    /\ req[r].pc = "dm_send1"
    /\ \E ok \in BOOLEAN :
         SetReq(r, IF ok THEN [req[r] EXCEPT !.pc = "dm_send2"]
                         ELSE Return(req[r], "http502"))
    /\ UNCHANGED <<promotion_cache, agent_overrides, calc, api_key, request_type, concurrent, session, setup_calls, task, job>>

\* The StanceUpdate used when parsing raised JSONDecodeError, KeyError or
\* ValueError.
DefaultStanceUpdate ==
    [outcome |-> "default", relationship_delta |-> 0, stance_changed |-> FALSE]

\* An exception that the try block of the parse does not catch.
ParseRaises ==
    [outcome |-> "raise", relationship_delta |-> 0, stance_changed |-> FALSE]

\* The parse of the structured reply: json.loads, then .get on the result
\* (AttributeError unless it is an object), float(relationship_delta)
\* (TypeError on null, ValueError on text), float(new_intensity) unless it
\* is null, then the validation of StanceUpdate (a ValueError).
ParseStanceUpdate(reply) ==
    IF reply.json = "invalid" THEN DefaultStanceUpdate
    ELSE IF reply.json = "other" THEN ParseRaises
    ELSE IF reply.delta_type = "null" THEN ParseRaises
    ELSE IF reply.delta_type = "text" THEN DefaultStanceUpdate
    ELSE IF reply.new_intensity = "text" THEN DefaultStanceUpdate
    ELSE IF \/ reply.relationship_delta < 0 - DeltaMax
            \/ reply.relationship_delta > DeltaMax
    THEN DefaultStanceUpdate
    ELSE [outcome |-> "parsed",
          relationship_delta |-> reply.relationship_delta,
          stance_changed |-> reply.stance_changed]

\* The update with the two agents the other way round.
DmUpdate_reverse(relationships, from, to, delta) ==
    UpdatedRelationships(relationships, from, to, delta)

\* session.update_relationship(request.to_agent_key, request.from_agent_key,
\* stance_update.relationship_delta, ...)
DmUpdate(relationships, from, to, delta) ==
    UpdatedRelationships(relationships, to, from, delta)

\* The structured reply arrived and is parsed; an exception the parse does
\* not catch leaves the handler (HTTP 500).  Otherwise the relationship is
\* updated and, if the stance changed and a proposal title was given, the
\* note goes to the recipient's main thread when there is one.
DmAssessed(r) ==
    /\ req[r].pc = "dm_send2"
    /\ \E ok \in BOOLEAN, reply \in StructuredInputs :
         LET main == session.agent_threads[req[r].to]
             stance_update == ParseStanceUpdate(reply)
             rel == DmUpdate(session.relationships, req[r].from, req[r].to,
                             stance_update.relationship_delta)
             dm == IF concurrent THEN NoDm
                   ELSE [reply |-> reply, from |-> req[r].from, to |-> req[r].to,
                         relationship_delta |-> stance_update.relationship_delta,
                         stance_changed |-> stance_update.stance_changed,
                         relationship_score |-> rel[<<req[r].to, req[r].from>>].score]
             rec == [req[r] EXCEPT !.dm = dm]
         IN  IF ~ok
             THEN /\ SetReq(r, Return(req[r], "http502"))
                  /\ UNCHANGED session
             ELSE IF stance_update.outcome = "raise"
             THEN /\ SetReq(r, Return(rec, "http500"))
                  /\ UNCHANGED session
             ELSE /\ session' = [session EXCEPT !.relationships = rel]
                  /\ SetReq(r, IF stance_update.stance_changed /\ req[r].titled /\ main # None
                                THEN [rec EXCEPT !.pc = "dm_send3", !.thread = main,
                                                 !.shift = TRUE]
                                ELSE Return(rec, "dm_reply"))
    /\ UNCHANGED <<promotion_cache, agent_overrides, calc, api_key, request_type, concurrent, setup_calls, task, job>>

\* The send of the stance note returned; a failure is only logged.
DmNoted(r) ==
    /\ req[r].pc = "dm_send3"
    /\ SetReq(r, Return(req[r], "dm_reply"))
    /\ UNCHANGED <<promotion_cache, agent_overrides, calc, api_key, request_type, concurrent, session, setup_calls, task, job>>

\* The edges that earlier dms left behind: none, or one at the upper bound.
EarlierEdges == {NoEdge, [present |-> TRUE, score |-> ScoreMax]}

\* The pair threads of the dms that made the edges of `rel`.
EarlierDmThreads(rel) ==
    [k \in Agents \X Agents |->
        IF /\ k = DmKey(k[1], k[2])
           /\ rel[k].present \/ rel[<<k[2], k[1]>>].present
        THEN NewId(0, "dm_thread", k[1] * (NumAgents + 1) + k[2]) ELSE None]

\* One dm on a session that earlier simulations and dms have used.
InitDm ==
    /\ api_key \in BOOLEAN
    /\ request_type \in BOOLEAN
    /\ \E o \in IF request_type THEN AgentOrders ELSE {<<>>},
          rel \in [Agents \X Agents -> EarlierEdges] :
         session = [EarlierSession(o, FALSE, FALSE) EXCEPT
                       !.relationships = rel,
                       !.dm_threads = EarlierDmThreads(rel),
                       !.dm_assistant_id =
                           IF \E k \in Agents \X Agents : rel[k].present
                           THEN NewId(0, "dm_assistant", 0) ELSE None]
    /\ setup_calls = 0
    /\ req = [r \in Requests |-> IdleReq]
    /\ task = [r \in Requests |-> [a \in Agents |-> IdleTask]]
    /\ job = [r \in Requests |-> NewJob]
    /\ InitDb /\ concurrent = FALSE /\ calc = NoCall

\* The steps of send_dm.
NextDm ==
    \E r \in Requests :
        \/ StartDm(r) \/ DmAsstDone(r) \/ DmThrDone(r) \/ DmReplied(r)
        \/ DmAssessed(r) \/ DmNoted(r)

\* One dm request.
SpecDm == InitDm /\ [][NextDm]_vars

(***************************************************************************)
(* The promotion cache and the agent overrides                             *)
(*   app/routers/cache.py       check_cache, promote_policy                *)
(*   app/routers/scenarios.py   update_agent_override,                     *)
(*                              reset_agent_override,                      *)
(*                              reset_all_agent_overrides                  *)
(*   app/models/simulation.py   PromotionCache, AgentOverride              *)
(*                                                                         *)
(* Every request has its own AsyncSession (get_db).  A select reads the    *)
(* committed rows; what a handler adds, changes or deletes reaches the     *)
(* tables when its commit returns.  The statements themselves do not fail. *)
(***************************************************************************)
\* sorted(d.items()) of a dict over the agent keys, from key a on; a key
\* mapped to `absent` is not in the dict.
RECURSIVE SortedItems(_, _, _)
SortedItems(d, absent, a) ==
    IF a > NumAgents THEN <<>>
    ELSE (IF d[a] = absent THEN <<>> ELSE << <<a, d[a]>> >>)
           \o SortedItems(d, absent, a + 1)

\* The digest of the proposal's key fields.
compute_proposal_hash(proposal) == Md5(proposal.title)

\* The digest of the canonical JSON of the inputs.
compute_cache_key(inputs) ==
    <<inputs.scenario_id, inputs.proposal_hash,
      SortedItems(inputs.agent_models, 0, 1),
      SortedItems(inputs.archetype_overrides, NoHash, 1),
      inputs.sim_mode>>

\* promote_policy lines 184-204: the models of the scenario's override rows,
\* then those of the request, which take precedence.
AgentModels(db_overrides, request_overrides) ==
    [a \in Agents |-> IF request_overrides[a] # 0 THEN request_overrides[a]
                      ELSE IF db_overrides[a].present THEN db_overrides[a].model
                      ELSE 0]

ArchetypeHashes(db_overrides) ==
    [a \in Agents |-> IF db_overrides[a].present /\ db_overrides[a].archetype # 0
                      THEN Md5(db_overrides[a].archetype)
                      ELSE NoHash]

\* request.agent_overrides: empty, or a model for the first agent.
RequestOverrides ==
    {[a \in Agents |-> 0]} \cup {[a \in Agents |-> IF a = 1 THEN m ELSE 0] : m \in Models}

\* The requests that have returned.
Returned == {q \in Requests : req[q].pc = "done"}

\* A PromotionCache row; id is the primary key.
CacheRow(id, scenario_id, cache_key, result_json) ==
    [id |-> id, scenario_id |-> scenario_id, cache_key |-> cache_key,
     result_json |-> result_json]

\* The row an earlier promote of the first proposal, with no overrides,
\* left for scenario s.
EarlierRow(s) ==
    CacheRow(s, s,
             compute_cache_key([scenario_id |-> s,
                                proposal_hash |-> compute_proposal_hash([title |-> 1]),
                                agent_models |-> [a \in Agents |-> 0],
                                archetype_overrides |-> [a \in Agents |-> NoHash],
                                sim_mode |-> "progressive"]),
             [response |-> "clarify", run |-> 0])

\* Requests that overlap on a database holding rows of earlier promotes;
\* the client is the one of the repository.
InitCache ==
    /\ InitCommon /\ ~request_type
    /\ concurrent = TRUE /\ calc = NoCall
    /\ promotion_cache \in SUBSET {EarlierRow(s) : s \in Scenarios}
    /\ agent_overrides = [k \in Scenarios \X Agents |-> NoOverride]

\* POST /cache/promote up to the select of the scenario's override rows.
StartPromote(r) ==
    /\ MayStart(r)
    /\ \E s \in Scenarios, t \in Titles, ov \in RequestOverrides :
         SetReq(r, [IdleReq EXCEPT !.kind = "promote", !.pc = "pr_overrides",
                       !.call = [NoLocals EXCEPT !.fn = "promote", !.run = r,
                                     !.after = Returned, !.scenario = s,
                                     !.title = t, !.overrides = ov]])
    /\ UNCHANGED <<promotion_cache, agent_overrides, calc, api_key, request_type, concurrent, session, setup_calls, task, job>>

\* The override rows are read: the cache key is computed from them and the
\* request, and the select by cache_key is issued.
PromoteOverrides(r) ==
    /\ req[r].kind = "promote" /\ req[r].pc = "pr_overrides"
    /\ LET c == req[r].call
           db_overrides == [a \in Agents |-> agent_overrides[<<c.scenario, a>>]]
           cache_inputs == [scenario_id |-> c.scenario,
                            proposal_hash |-> compute_proposal_hash([title |-> c.title]),
                            agent_models |-> AgentModels(db_overrides, c.overrides),
                            archetype_overrides |-> ArchetypeHashes(db_overrides),
                            sim_mode |-> "progressive"]
       IN  SetReq(r, [req[r] EXCEPT !.pc = "pr_lookup",
                         !.call.cache_key = compute_cache_key(cache_inputs)])
    /\ UNCHANGED <<promotion_cache, agent_overrides, calc, api_key, request_type, concurrent, session, setup_calls, task, job>>

\* PromoteLookup that never finds an entry.
PromoteLookup_miss(r) ==
    /\ req[r].kind = "promote" /\ req[r].pc = "pr_lookup"
    /\ LET rec == [req[r] EXCEPT !.kind = "chat", !.call.simulated = TRUE]
       IN  SetReq(r, IF api_key THEN InterpretCall(rec) ELSE Return(rec, "http502"))
    /\ UNCHANGED <<promotion_cache, agent_overrides, calc, api_key, request_type, concurrent, session, setup_calls, task, job>>

\* The select by cache_key returns.  scalar_one_or_none raises
\* MultipleResultsFound on two rows (HTTP 500), gives the entry on one (the
\* cached response) and None on none: ai_chat is called, up to the first
\* await of interpret.
PromoteLookup(r) ==
    /\ req[r].kind = "promote" /\ req[r].pc = "pr_lookup"
    /\ LET hits == {row \in promotion_cache : row.cache_key = req[r].call.cache_key}
           rec == [req[r] EXCEPT !.kind = "chat", !.call.simulated = TRUE]
       IN  SetReq(r, IF Cardinality(hits) > 1 THEN Return(req[r], "http500")
                     ELSE IF hits # {}
                     THEN Return([req[r] EXCEPT !.call.result =
                                      (CHOOSE row \in hits : TRUE).result_json], "cached")
                     ELSE IF api_key THEN InterpretCall(rec)
                     ELSE Return(rec, "http502"))
    /\ UNCHANGED <<promotion_cache, agent_overrides, calc, api_key, request_type, concurrent, session, setup_calls, task, job>>

\* db.add(new_cache) and the commit: the row is inserted and the handler
\* returns the new run.
PromoteCommit(r) ==
    /\ req[r].kind = "promote" /\ req[r].pc = "pr_commit"
    /\ promotion_cache' = promotion_cache \cup
           {CacheRow(NumScenarios + r, req[r].call.scenario, req[r].call.cache_key,
                     req[r].call.result)}
    /\ SetReq(r, Return(req[r], "new_run"))
    /\ UNCHANGED <<agent_overrides, calc, api_key, request_type, concurrent, session, setup_calls, task, job>>

\* GET /cache/{cache_key} up to its select.
StartCheckCache(r) ==
    /\ MayStart(r)
    /\ \E k \in {row.cache_key : row \in promotion_cache} \cup {NoKey} :
         SetReq(r, [IdleReq EXCEPT !.kind = "check_cache", !.pc = "cc_lookup",
                       !.call = [NoLocals EXCEPT !.fn = "check_cache", !.run = r,
                                     !.after = Returned, !.cache_key = k]])
    /\ UNCHANGED <<promotion_cache, agent_overrides, calc, api_key, request_type, concurrent, session, setup_calls, task, job>>

\* The select returns: hit, miss, or MultipleResultsFound (HTTP 500).
CheckCacheLookup(r) ==
    /\ req[r].kind = "check_cache" /\ req[r].pc = "cc_lookup"
    /\ LET hits == {row \in promotion_cache : row.cache_key = req[r].call.cache_key}
       IN  SetReq(r, IF Cardinality(hits) > 1 THEN Return(req[r], "http500")
                     ELSE IF hits # {}
                     THEN Return([req[r] EXCEPT !.call.result =
                                      (CHOOSE row \in hits : TRUE).result_json], "hit")
                     ELSE Return(req[r], "miss"))
    /\ UNCHANGED <<promotion_cache, agent_overrides, calc, api_key, request_type, concurrent, session, setup_calls, task, job>>

\* The bodies a PUT of an agent override is called with: every valid one,
\* and one each with an unknown scenario, an unknown agent and a model that
\* is not allowed.
UpdateInputs ==
    (Scenarios \X Agents \X ({0} \cup Models) \X ({0} \cup Archetypes))
      \cup {<<0, 1, 0, 0>>, <<1, 0, 0, 0>>, <<1, 1, 0 - 1, 0>>}

\* An override handler is entered: the select of the scenario is issued.
OverrideCall(r, fn, s, a, m, x) ==
    SetReq(r, [IdleReq EXCEPT !.kind = fn, !.pc = "ov_scenario",
                  !.call = [NoLocals EXCEPT !.fn = fn, !.run = r, !.after = Returned,
                                !.scenario = s, !.agent = a, !.model = m,
                                !.archetype = x]])

\* PUT /scenario/{scenario_id}/agents/{agent_key}
StartUpdateOverride(r) ==
    /\ MayStart(r)
    /\ \E in \in UpdateInputs :
         OverrideCall(r, "update_agent_override", in[1], in[2], in[3], in[4])
    /\ UNCHANGED <<promotion_cache, agent_overrides, calc, api_key, request_type, concurrent, session, setup_calls, task, job>>

\* POST /scenario/{scenario_id}/agents/{agent_key}/reset
StartResetOverride(r) ==
    /\ MayStart(r)
    /\ \E s \in Scenarios \cup {0}, a \in Agents \cup {0} :
         OverrideCall(r, "reset_agent_override", s, a, 0, 0)
    /\ UNCHANGED <<promotion_cache, agent_overrides, calc, api_key, request_type, concurrent, session, setup_calls, task, job>>

\* POST /scenario/{scenario_id}/agents/reset-all
StartResetAll(r) ==
    /\ MayStart(r)
    /\ \E s \in Scenarios \cup {0} :
         OverrideCall(r, "reset_all_agent_overrides", s, 0, 0, 0)
    /\ UNCHANGED <<promotion_cache, agent_overrides, calc, api_key, request_type, concurrent, session, setup_calls, task, job>>

OverrideHandlers ==
    {"update_agent_override", "reset_agent_override", "reset_all_agent_overrides"}

\* The select of the scenario returns: 404 without the scenario, 400 for an
\* unknown agent key or a model outside ALLOWED_MODELS; else the handler's
\* next statement is issued.
OvScenario(r) ==
    /\ req[r].kind \in OverrideHandlers /\ req[r].pc = "ov_scenario"
    /\ LET c == req[r].call
       IN  SetReq(r, IF c.scenario = 0 THEN Return(req[r], "http404")
                     ELSE IF c.fn # "reset_all_agent_overrides" /\ c.agent = 0
                     THEN Return(req[r], "http400")
                     ELSE IF c.fn = "update_agent_override" /\ c.model < 0
                     THEN Return(req[r], "http400")
                     ELSE IF c.fn = "update_agent_override"
                     THEN [req[r] EXCEPT !.pc = "ov_select"]
                     ELSE [req[r] EXCEPT !.pc = "ov_delete_override"])
    /\ UNCHANGED <<promotion_cache, agent_overrides, calc, api_key, request_type, concurrent, session, setup_calls, task, job>>

\* update_agent_override: the select of the agent's row returns; the row is
\* changed, or a new one is added to the session, and the delete of the
\* scenario's cache rows is issued.
OvSelect(r) ==
    /\ req[r].kind = "update_agent_override" /\ req[r].pc = "ov_select"
    /\ SetReq(r, [req[r] EXCEPT !.pc = "ov_delete",
                     !.call.found = agent_overrides[<<req[r].call.scenario,
                                                      req[r].call.agent>>].present])
    /\ UNCHANGED <<promotion_cache, agent_overrides, calc, api_key, request_type, concurrent, session, setup_calls, task, job>>

\* The resets: the delete of the override rows returns and the delete of
\* the scenario's cache rows is issued.
OvDeleteOverride(r) ==
    /\ req[r].kind \in OverrideHandlers /\ req[r].pc = "ov_delete_override"
    /\ SetReq(r, [req[r] EXCEPT !.pc = "ov_delete"])
    /\ UNCHANGED <<promotion_cache, agent_overrides, calc, api_key, request_type, concurrent, session, setup_calls, task, job>>

\* The delete of the scenario's cache rows returns; the commit is issued.
OvDeleteCache(r) ==
    /\ req[r].kind \in OverrideHandlers /\ req[r].pc = "ov_delete"
    /\ SetReq(r, [req[r] EXCEPT !.pc = "ov_commit"])
    /\ UNCHANGED <<promotion_cache, agent_overrides, calc, api_key, request_type, concurrent, session, setup_calls, task, job>>

\* delete(PromotionCache).where(PromotionCache.scenario_id == scenario_id)
Invalidate(rows, s) == {row \in rows : row.scenario_id # s}

\* The override rows after the handler's changes.
OverridesAfter(c) ==
    LET k == <<c.scenario, c.agent>>
        cur == agent_overrides[k]
    IN  IF c.fn = "update_agent_override"
        THEN [agent_overrides EXCEPT ![k] =
                 [present |-> TRUE,
                  model |-> IF c.found /\ c.model = 0 THEN cur.model ELSE c.model,
                  archetype |-> IF c.found /\ c.archetype = 0 THEN cur.archetype
                                ELSE c.archetype]]
        ELSE IF c.fn = "reset_agent_override"
        THEN [agent_overrides EXCEPT ![k] = NoOverride]
        ELSE [j \in Scenarios \X Agents |->
                 IF j[1] = c.scenario THEN NoOverride ELSE agent_overrides[j]]

\* OvCommit that leaves the cache rows.
OvCommit_keep(r) ==
    /\ req[r].kind \in OverrideHandlers /\ req[r].pc = "ov_commit"
    /\ agent_overrides' = OverridesAfter(req[r].call)
    /\ SetReq(r, IF req[r].call.fn = "update_agent_override"
                 THEN [req[r] EXCEPT !.pc = "ov_refresh"]
                 ELSE Return(req[r], "ok"))
    /\ UNCHANGED <<promotion_cache, calc, api_key, request_type, concurrent, session, setup_calls, task, job>>

\* The commit returns.  An update whose row was deleted since the select,
\* or an insert of a row another request inserted since (the unique
\* constraint on scenario and agent), fails and nothing is written: HTTP
\* 500.  Else the changes are written; update_agent_override goes on to
\* refresh its row, the resets return.
OvCommit(r) ==
    /\ req[r].kind \in OverrideHandlers /\ req[r].pc = "ov_commit"
    /\ LET c == req[r].call
       IN  IF /\ c.fn = "update_agent_override"
              /\ c.found # agent_overrides[<<c.scenario, c.agent>>].present
           THEN /\ SetReq(r, Return(req[r], "http500"))
                /\ UNCHANGED <<promotion_cache, agent_overrides>>
           ELSE /\ agent_overrides' = OverridesAfter(c)
                /\ promotion_cache' = Invalidate(promotion_cache, c.scenario)
                /\ SetReq(r, IF c.fn = "update_agent_override"
                             THEN [req[r] EXCEPT !.pc = "ov_refresh"]
                             ELSE Return(req[r], "ok"))
    /\ UNCHANGED <<calc, api_key, request_type, concurrent, session, setup_calls, task, job>>

\* db.refresh(override) returns, or raises when the row is gone.
OvRefresh(r) ==
    /\ req[r].kind = "update_agent_override" /\ req[r].pc = "ov_refresh"
    /\ SetReq(r, IF agent_overrides[<<req[r].call.scenario, req[r].call.agent>>].present
                 THEN Return(req[r], "ok")
                 ELSE Return(req[r], "http500"))
    /\ UNCHANGED <<promotion_cache, agent_overrides, calc, api_key, request_type, concurrent, session, setup_calls, task, job>>

(***************************************************************************)
(* SessionThreads.update_relationship                                      *)
(***************************************************************************)
\* One call of update_relationship on the session; it returns edge.score.
UpdateRelationship(from_agent, to_agent, delta) ==
    /\ calc.fn \in {"none", "update_relationship"}
    /\ LET rel == UpdatedRelationships(session.relationships, from_agent, to_agent, delta)
       IN  /\ session' = [session EXCEPT !.relationships = rel]
           /\ calc' = [fn |-> "update_relationship", from_agent |-> from_agent,
                       to_agent |-> to_agent, delta |-> delta,
                       returned |-> rel[<<from_agent, to_agent>>].score]
    /\ UNCHANGED <<promotion_cache, agent_overrides, api_key, request_type, concurrent,
                   setup_calls, req, task, job>>

\* No call has been made on the session.
InitRelationship == InitIdle /\ calc = NoCall

NextRelationship ==
    \E from_agent \in Agents, to_agent \in Agents, delta \in Deltas :
        UpdateRelationship(from_agent, to_agent, delta)

\* Any sequence of update_relationship calls on one session.
SpecRelationship == InitRelationship /\ [][NextRelationship]_vars

(***************************************************************************)
(* SentimentAggregator.aggregate                                           *)
(*                                                                         *)
(* Intensities are floats in [0,1]; the model keeps them in tenths and a   *)
(* score in thousandths, the unit round(avg_score, 3) produces.            *)
(***************************************************************************)
\* Longest zones_most_affected list of a reaction.
MaxEffects == 1

Stances == {"support", "oppose", "neutral"}
Intensities == {5, 10}

\* ZoneEffect(zone_id, effect, intensity)
ZoneEffects == [zone_id : Agents, effect : Stances, intensity : Intensities]

\* zones_most_affected lists of at most MaxEffects entries.
EffectLists == UNION {[1..n -> ZoneEffects] : n \in 0..MaxEffects}

\* The reactions the aggregator is handed: one per catalog agent, in catalog
\* order; quote says whether reaction.quote is non-empty.
ReactionLists ==
    {rs \in [Agents -> [agent_key : Agents, stance : Stances,
                         intensity : Intensities, quote : BOOLEAN,
                         zones_most_affected : EffectLists]] :
        \A i \in Agents : rs[i].agent_key = i}

\* Lines 36-40: the first zone effect of the reaction that names the zone,
\* or <<>>.
FirstEffect(reaction, z) ==
    LET hits == SelectSeq(reaction.zones_most_affected, LAMBDA ze : ze.zone_id = z)
    IN  IF hits = <<>> THEN <<>> ELSE <<hits[1]>>

\* Lines 42-66: what a reaction adds to `scores` for zone z, in thousandths.
ZoneScore(reaction, z) ==
    LET ze == FirstEffect(reaction, z)
    IN  IF ze # <<>>
        THEN IF ze[1].effect = "support" THEN 100 * ze[1].intensity
             ELSE IF ze[1].effect = "oppose" THEN 0 - 100 * ze[1].intensity
             ELSE 0
        ELSE IF reaction.stance = "support" THEN 50 * reaction.intensity
             ELSE IF reaction.stance = "oppose" THEN 0 - 50 * reaction.intensity
             ELSE 0

\* Lines 53-57 and 69-73: the side the reaction's quote is collected on for
\* zone z ("none": not collected) and the weight it is sorted by.
QuoteSide(reaction, z) ==
    LET ze == FirstEffect(reaction, z)
        side == IF ze # <<>> THEN ze[1].effect ELSE reaction.stance
    IN  IF reaction.quote /\ side # "neutral" THEN side ELSE "none"

QuoteWeight(reaction, z) ==
    LET ze == FirstEffect(reaction, z)
    IN  IF ze # <<>> THEN 100 * ze[1].intensity ELSE 50 * reaction.intensity

RECURSIVE SumScores(_, _, _)
\* sum(scores) over the first n reactions.
SumScores(rs, z, n) ==
    IF n = 0 THEN 0 ELSE SumScores(rs, z, n - 1) + ZoneScore(rs[n], z)

\* round(n / d): to the nearest integer, a tie to the even one.
RoundDiv(n, d) ==
    LET q == n \div d
        m == n % d
    IN  IF 2 * m < d THEN q
        ELSE IF 2 * m > d THEN q + 1
        ELSE IF q % 2 = 0 THEN q ELSE q + 1

RECURSIVE InsertByWeight(_, _, _, _)
\* list.sort(key=weight, reverse=True) is stable: an entry goes behind the
\* entries of at least its weight.
InsertByWeight(sorted, i, rs, z) ==
    IF sorted = <<>> THEN <<i>>
    ELSE IF QuoteWeight(rs[Head(sorted)], z) >= QuoteWeight(rs[i], z)
         THEN <<Head(sorted)>> \o InsertByWeight(Tail(sorted), i, rs, z)
         ELSE <<i>> \o sorted

RECURSIVE SortedQuotes(_, _, _, _)
\* The quotes collected on `side` among the first n reactions, sorted.
SortedQuotes(rs, z, side, n) ==
    IF n = 0 THEN <<>>
    ELSE IF QuoteSide(rs[n], z) = side
         THEN InsertByWeight(SortedQuotes(rs, z, side, n - 1), n, rs, z)
         ELSE SortedQuotes(rs, z, side, n - 1)

\* quotes[:2], each entry named by the agent it quotes.
TopTwo(q) == SubSeq(q, 1, IF Len(q) < 2 THEN Len(q) ELSE 2)

\* Lines 75-115: the ZoneSentiment of zone z.
ZoneSentimentOf(rs, z) ==
    LET n == Len(rs)
        total == SumScores(rs, z, n)
        clamped == IF n = 0 THEN 0
                   ELSE IF total > 1000 * n THEN 1000 * n
                   ELSE IF total < 0 - 1000 * n THEN 0 - 1000 * n
                   ELSE total
    IN  [zone_id |-> z,
         sentiment |-> IF n > 0 /\ clamped > 200 * n THEN "support"
                       ELSE IF n > 0 /\ clamped < 0 - 200 * n THEN "oppose"
                       ELSE "neutral",
         score |-> IF n = 0 THEN 0 ELSE RoundDiv(clamped, n),
         top_support_quotes |-> TopTwo(SortedQuotes(rs, z, "support", n)),
         top_oppose_quotes |-> TopTwo(SortedQuotes(rs, z, "oppose", n))]

\* SentimentAggregator.aggregate(reactions): one ZoneSentiment per zone of
\* ZONES (zone ids are the agent keys).
Aggregate(rs) == [z \in Agents |-> ZoneSentimentOf(rs, z)]

\* A call aggregate(reactions) is made with some reaction list.
InitAggregate ==
    /\ InitIdle
    /\ \E rs \in ReactionLists :
         calc = [fn |-> "aggregate", reactions |-> rs, zones |-> <<>>, returned |-> FALSE]

\* The call returns.
AggregateReturns ==
    /\ calc.fn = "aggregate" /\ ~calc.returned
    /\ calc' = [calc EXCEPT !.zones = Aggregate(calc.reactions), !.returned = TRUE]
    /\ UNCHANGED <<promotion_cache, agent_overrides, api_key, request_type, concurrent,
                   session, setup_calls, req, task, job>>

(***************************************************************************)
(* TownHallGenerator: the transcript                                       *)
(***************************************************************************)
\* len(AGENTS), the size of the agent catalog.
CatalogSize == 21

\* The fallback transcript is padded up to this many turns before the
\* closing; a parsed reply with fewer turns is not used.
MinTurns == 5

\* turns[:12]
MaxTurns == 12

\* The reply holds up to this many turns.
MaxReplyTurns == 14

\* The reactions handed to generate: `n` reactions of which the one at
\* position `empty` (if any) has an empty quote.
TownhallReactions(n, empty) ==
    [i \in 1..n |-> [agent_name |-> i, quote |-> IF i = empty THEN "" ELSE "quote"]]

Moderator(text) == [speaker |-> <<"Moderator", 0>>, text |-> <<text, 0>>]

\* TranscriptTurn(speaker=r.agent_name, text=r.quote)
QuoteTurn(r) == [speaker |-> <<"agent", r.agent_name>>, text |-> <<"quote", r.agent_name>>]

\* for r in reactions: if r.quote: turns.append(...)
RECURSIVE QuoteTurns(_)
QuoteTurns(reactions) ==
    IF reactions = <<>> THEN <<>>
    ELSE LET r == reactions[Len(reactions)]
             rest == QuoteTurns(SubSeq(reactions, 1, Len(reactions) - 1))
         IN  IF r.quote # "" THEN Append(rest, QuoteTurn(r)) ELSE rest

\* while len(turns) < 5: turns.append(...)
RECURSIVE Padded(_)
Padded(turns) ==
    IF Len(turns) < MinTurns THEN Padded(Append(turns, Moderator("continue")))
    ELSE turns

\* seq[:n]
Prefix(seq, n) == SubSeq(seq, 1, IF Len(seq) < n THEN Len(seq) ELSE n)

\* _fallback_transcript_from_reactions(reactions).turns
FallbackTurns(reactions) ==
    Prefix(Append(Padded(<<Moderator("welcome")>> \o QuoteTurns(reactions)),
                  Moderator("closing")),
           MaxTurns)

\* What the moderator's call gives: a BackboardError, text that is not
\* JSON, JSON that is not an object, or an object with so many well-formed
\* turns.
TownhallReplies ==
    {[kind |-> k, turns |-> 0] : k \in {"error", "invalid", "other"}}
    \cup {[kind |-> "object", turns |-> t] : t \in {0, MinTurns - 1, MinTurns, MaxTurns, MaxReplyTurns}}

\* The turns of the reply, data["turns"][:12].
ReplyTurns(reply) ==
    Prefix([i \in 1..reply.turns |-> [speaker |-> <<"reply", i>>, text |-> <<"reply", i>>]],
           MaxTurns)

\* generate without its upstream calls: the transcript for a reply.  Every
\* exception and a reply of fewer than 5 turns give the fallback.
Transcript(reply, reactions) ==
    IF reply.kind # "object" \/ Len(ReplyTurns(reply)) < MinTurns
    THEN [fallback |-> TRUE, turns |-> FallbackTurns(reactions)]
    ELSE [fallback |-> FALSE, turns |-> ReplyTurns(reply)]

\* generate is called with some reactions and gets some reply.
InitTownhall ==
    /\ InitIdle
    /\ \E n \in 0..CatalogSize, reply \in TownhallReplies :
         \E empty \in 0..n :
            calc = [fn |-> "townhall", reactions |-> TownhallReactions(n, empty),
                    reply |-> reply, transcript |-> [fallback |-> FALSE, turns |-> <<>>],
                    returned |-> FALSE]

\* The call returns.
TownhallReturns ==
    /\ calc.fn = "townhall" /\ ~calc.returned
    /\ calc' = [calc EXCEPT !.transcript = Transcript(calc.reply, calc.reactions),
                            !.returned = TRUE]
    /\ UNCHANGED <<promotion_cache, agent_overrides, api_key, request_type, concurrent,
                   session, setup_calls, req, task, job>>

\* One call of TownHallGenerator.generate.
SpecTownhall == InitTownhall /\ [][TownhallReturns]_vars

(***************************************************************************)
(* BackboardClient                                                         *)
(***************************************************************************)
\* The longest message content of a call.
MaxContent == 2

\* Message contents: strings of blanks and letters.
Contents == UNION {[1..n -> {" ", "a"}] : n \in 0..MaxContent}

\* content.strip()
RECURSIVE Strip(_)
Strip(content) ==
    IF content = <<>> THEN <<>>
    ELSE IF Head(content) = " " THEN Strip(Tail(content))
    ELSE IF content[Len(content)] = " " THEN Strip(SubSeq(content, 1, Len(content) - 1))
    ELSE content

ClientOps == {"create_assistant", "create_thread", "send_message"}

\* What client.post gives: no response (httpx raises on a timeout or a
\* connection error), or a response with a status and a body that is not
\* JSON, JSON that is not an object, or an object holding the first key
\* looked up, only the second, or neither.
PostResults ==
    {[status |-> 0, body |-> "no_response"]}
    \cup {[status |-> st, body |-> b] :
              st \in {200, 201, 422, 500},
              b \in {"not_json", "not_object", "first", "second", "neither"}}

Raises(status) == [kind |-> "BackboardError", status |-> status, value |-> "none"]

\* An exception that is not a BackboardError: of httpx, of resp.json() or
\* of data.get.
OtherException == [kind |-> "exception", status |-> 0, value |-> "none"]

Returns(value) == [kind |-> "returned", status |-> 0, value |-> value]

NoOutcome == [kind |-> "none", status |-> 0, value |-> "none"]

\* The rest of an operation once client.post gave `resp`.
ClientOutcome(fn, resp) ==
    IF resp.body = "no_response" THEN OtherException
    ELSE IF fn = "send_message" /\ resp.status # 200 THEN Raises(resp.status)
    ELSE IF resp.status \notin {200, 201} THEN Raises(resp.status)
    ELSE IF resp.body \in {"not_json", "not_object"} THEN OtherException
    ELSE IF resp.body = "neither"
    THEN IF fn = "send_message" THEN Raises(500) ELSE Returns("None")
    ELSE Returns(resp.body)

\* An operation of the client is called.
InitClient ==
    /\ InitIdle
    /\ \E fn \in ClientOps, content \in Contents :
         /\ fn # "send_message" => content = <<"a">>
         /\ calc = [fn |-> fn, content |-> content, pc |-> "called", requests |-> 0,
                    response |-> [status |-> 0, body |-> "none"], outcome |-> NoOutcome]

\* The operation up to its await of client.post; send_message raises
\* before it for empty content.
ClientPost ==
    /\ calc.fn \in ClientOps /\ calc.pc = "called"
    /\ calc' = IF calc.fn = "send_message"
                  /\ (calc.content = <<>> \/ Strip(calc.content) = <<>>)
               THEN [calc EXCEPT !.pc = "done", !.outcome = Raises(400)]
               ELSE [calc EXCEPT !.pc = "posted", !.requests = @ + 1]
    /\ UNCHANGED <<promotion_cache, agent_overrides, api_key, request_type, concurrent,
                   session, setup_calls, req, task, job>>

\* client.post is over and the operation ends.
ClientDone ==
    /\ calc.fn \in ClientOps /\ calc.pc = "posted"
    /\ \E resp \in PostResults :
         calc' = [calc EXCEPT !.pc = "done", !.response = resp,
                              !.outcome = ClientOutcome(calc.fn, resp)]
    /\ UNCHANGED <<promotion_cache, agent_overrides, api_key, request_type, concurrent,
                   session, setup_calls, req, task, job>>

NextClient == ClientPost \/ ClientDone

\* One call of an operation of BackboardClient.
SpecClient == InitClient /\ [][NextClient]_vars

(***************************************************************************)
(* JobStore                                                                *)
(***************************************************************************)
\* The most saves of one job: create_job and the update_job calls.
MaxSaves == 2

\* The store after connect: `redis` holds for each job the version that
\* was serialized last (0: no key), `memory` the jobs whose object is in
\* _memory_store, `live` the number of saves of the job object (0: not
\* created), `got` the last get_job and what it returned (0: None).
NewJobStore(available) ==
    [fn |-> "job_store", redis_available |-> available,
     redis |-> [j \in Requests |-> 0], memory |-> {},
     live |-> [j \in Requests |-> 0],
     got |-> [job_id |-> 0, version |-> 0]]

\* JobStore() and connect(): the ping succeeded or raised.
InitJobStore ==
    /\ InitIdle
    /\ \E available \in BOOLEAN : calc = NewJobStore(available)

\* _save_job of job j at version v: setex when Redis is available, and the
\* memory map when it is not or when setex raised.
SavedJob(store, j, v, redis_ok) ==
    IF store.redis_available /\ redis_ok
    THEN [store EXCEPT !.redis[j] = v, !.live[j] = v]
    ELSE [store EXCEPT !.memory = @ \cup {j}, !.live[j] = v]

\* create_job makes the job and saves it.
CreateJob(j) ==
    /\ calc.fn = "job_store" /\ calc.live[j] = 0
    /\ \E redis_ok \in BOOLEAN : calc' = SavedJob(calc, j, 1, redis_ok)
    /\ UNCHANGED <<promotion_cache, agent_overrides, api_key, request_type, concurrent,
                   session, setup_calls, req, task, job>>

\* The job object was changed and update_job saves it.
UpdateJob(j) ==
    /\ calc.fn = "job_store" /\ calc.live[j] > 0 /\ calc.live[j] < MaxSaves
    /\ \E redis_ok \in BOOLEAN : calc' = SavedJob(calc, j, calc.live[j] + 1, redis_ok)
    /\ UNCHANGED <<promotion_cache, agent_overrides, api_key, request_type, concurrent,
                   session, setup_calls, req, task, job>>

\* get_job: the record under the Redis key if Redis is available, the get
\* did not raise and the key exists; else the object of the memory map,
\* which is the job object itself, or None.
GetJob(j) ==
    /\ calc.fn = "job_store"
    /\ \E redis_ok \in BOOLEAN :
         calc' = [calc EXCEPT !.got =
                    [job_id |-> j,
                     version |-> IF calc.redis_available /\ redis_ok /\ calc.redis[j] # 0
                                 THEN calc.redis[j]
                                 ELSE IF j \in calc.memory THEN calc.live[j] ELSE 0]]
    /\ UNCHANGED <<promotion_cache, agent_overrides, api_key, request_type, concurrent,
                   session, setup_calls, req, task, job>>

NextJobStore == \E j \in Requests : CreateJob(j) \/ UpdateJob(j) \/ GetJob(j)

\* Calls of create_job, update_job and get_job on one store, each of whose
\* Redis commands may fail.
SpecJobStore == InitJobStore /\ [][NextJobStore]_vars

(***************************************************************************)
(* get_active_calls                                                        *)
(***************************************************************************)
\* The session object is in the session manager: start_simulation or
\* interpret has called get_or_create_session.
SessionCreated ==
    \E r \in Requests :
        req[r].kind = "simulate" \/ (req[r].kind = "chat" /\ api_key)

\* ActiveCallsResponse
ActiveCalls(created, active_calls, recently_completed) ==
    [fn |-> "active_calls", created |-> created, status |-> "ok",
     active_calls |-> active_calls, recently_completed |-> recently_completed]

\* The agent_key of an ActiveCallResponse.
CallKey(a) == <<"agent", a>>

TownhallKey == <<"townhall", 0>>

\* GET /ai/active-calls/{session_id}.  Without a session object the lists
\* are empty.  With one, session.last_job_id is read: AttributeError when
\* the attribute was never assigned (HTTP 500).  Otherwise the lists are
\* computed from the job: the agents that completed within the last five
\* seconds (any of the completed ones), the agents still running in the
\* agent_reactions phase, and the town hall.
GetActiveCalls ==
    /\ calc.fn \in {"none", "active_calls"}
    /\ IF ~SessionCreated
       THEN calc' = ActiveCalls(FALSE, {}, {})
       ELSE IF session.last_job_id = NoAttribute
       THEN calc' = [ActiveCalls(TRUE, {}, {}) EXCEPT !.status = "http500"]
       ELSE LET j == job[session.last_job_id[1]]
                completed_keys == {j.partial_reactions[i].agent_key :
                                      i \in DOMAIN j.partial_reactions}
                running == j.status = "running"
            IN  \E recent \in SUBSET completed_keys, th_recent \in BOOLEAN :
                   calc' = ActiveCalls(TRUE,
                             (IF running /\ j.phase = "agent_reactions"
                              THEN {CallKey(a) : a \in Agents \ completed_keys} ELSE {})
                             \cup (IF running /\ j.phase = "generating_townhall"
                                   THEN {TownhallKey} ELSE {}),
                             {CallKey(a) : a \in recent}
                             \cup (IF j.status = "complete" /\ j.completed_at /\ th_recent
                                   THEN {TownhallKey} ELSE {}))
    /\ UNCHANGED <<promotion_cache, agent_overrides, api_key, request_type, concurrent,
                   session, setup_calls, req, task, job>>

(***************************************************************************)
(* Specifications                                                          *)
(***************************************************************************)
Next ==
    \/ \E r \in Requests :
         \/ StartChat(r) \/ ChatAfterInterpret(r) \/ ChatGather(r) \/ ChatRespond(r)
         \/ StartSimulate(r) \/ ProgStart(r) \/ ProgBegin(r) \/ ProgInterpret(r)
         \/ ProgAfterInterpret(r) \/ ProgAgentPhase(r) \/ ProgFanOut(r)
         \/ ProgConsume(r) \/ ProgCoalition(r) \/ ProgTownhallPhase(r)
         \/ ProgTownhall(r) \/ ProgFinalizing(r) \/ ProgComplete(r)
         \/ InterpAsstDone(r) \/ InterpThrDone(r) \/ InterpSendDone(r)
         \/ ThAsstDone(r) \/ ThThrDone(r) \/ ThSendDone(r)
    \/ \E r \in Requests, a \in Agents :
         \/ TaskStart(r, a) \/ TaskAsstDone(r, a) \/ TaskThrDone(r, a)
         \/ TaskSendDone(r, a)

\* One simulation, synchronous or progressive, on a fresh session.
Spec == Init /\ [][Next]_vars

\* The same run with polls of the active calls of the session.
NextActive == Next \/ GetActiveCalls

SpecActive == Init /\ [][NextActive]_vars

\* The same run on an event loop that resumes every coroutine that is ready,
\* with an upstream that answers every call (with a value or an error).
SpecLive == Init /\ [][Next]_vars /\ WF_vars(Next)

\* One call of SentimentAggregator.aggregate.
SpecAggregate == InitAggregate /\ [][AggregateReturns]_vars

\* The override rows that earlier requests have set: a model or none for
\* each agent of each scenario.
InitOverride ==
    /\ InitCommon /\ concurrent = FALSE /\ calc = NoCall
    /\ promotion_cache = {}
    /\ agent_overrides \in
          [Scenarios \X Agents ->
              {NoOverride} \cup {[present |-> TRUE, model |-> m, archetype |-> 0] : m \in Models}]

NextOverride ==
    \/ Next
    \/ \E r \in Requests :
         \/ StartPromote(r) \/ PromoteOverrides(r) \/ PromoteLookup(r)
         \/ PromoteCommit(r)

\* One simulation, synchronous, progressive or started by promote, on a
\* scenario with override rows.
SpecOverride == InitOverride /\ [][NextOverride]_vars

\* The handlers of the promotion cache and of the agent overrides, with the
\* part of ai_chat that promote_policy reaches.
NextCache ==
    \E r \in Requests :
        \/ StartPromote(r) \/ PromoteOverrides(r) \/ PromoteLookup(r)
        \/ InterpAsstDone(r) \/ InterpThrDone(r) \/ ChatAfterInterpret(r)
        \/ PromoteCommit(r)
        \/ StartCheckCache(r) \/ CheckCacheLookup(r)
        \/ StartUpdateOverride(r) \/ StartResetOverride(r) \/ StartResetAll(r)
        \/ OvScenario(r) \/ OvSelect(r) \/ OvDeleteOverride(r)
        \/ OvDeleteCache(r) \/ OvCommit(r) \/ OvRefresh(r)

\* Requests to the cache and the overrides that overlap.
SpecCache == InitCache /\ [][NextCache]_vars

\* The handlers that read and write the session's threads: the chat
\* simulation, adoption and direct messages.
NextSession ==
    \/ \E r \in Requests :
         \/ StartChat(r) \/ ChatAfterInterpret(r) \/ ChatGather(r) \/ ChatRespond(r)
         \/ InterpAsstDone(r) \/ InterpThrDone(r) \/ InterpSendDone(r)
         \/ ThAsstDone(r) \/ ThThrDone(r) \/ ThSendDone(r)
         \/ StartAdopt(r) \/ AdoptAgentSent(r) \/ AdoptInterpreterSent(r)
         \/ AdoptTownhallSent(r)
         \/ StartDm(r) \/ DmAsstDone(r) \/ DmThrDone(r) \/ DmReplied(r)
         \/ DmAssessed(r) \/ DmNoted(r)
    \/ \E r \in Requests, a \in Agents :
         \/ TaskStart(r, a) \/ TaskAsstDone(r, a) \/ TaskThrDone(r, a)
         \/ TaskSendDone(r, a)

\* Requests that overlap on one session.
SpecSession == InitSession /\ [][NextSession]_vars

(***************************************************************************)
(* Upstream calls in flight                                                *)
(***************************************************************************)
\* Positions of a handler at which it awaits client.send_message.
SendPcs == {"interp_send", "th_send", "adopt_agent_send", "adopt_interp_send",
            "adopt_th_send", "dm_send1", "dm_send2", "dm_send3"}

\* The callers awaiting send_message on thread th: handlers as <<r, 0>>,
\* reactor coroutines as <<r, a>>.
Senders(th) ==
    {<<r, 0>> : r \in {q \in Requests : req[q].pc \in SendPcs /\ req[q].thread = th}}
    \cup {ra \in Requests \X Agents :
            task[ra[1]][ra[2]].pc = "sending" /\ task[ra[1]][ra[2]].thread = th}

\* Every thread id the session holds.
SessionThreadIds ==
    ({session.interpreter_thread_id, session.townhall_thread_id}
     \cup {session.agent_threads[a] : a \in Agents}
     \cup {session.dm_threads[k] : k \in Agents \X Agents}) \ {None}

\* Positions of a handler between the return of the reactor and its own.
TownhallPcs == {"th_asst_wait", "th_thr_wait", "th_send", "th_ret"}

\* The phases in the order of SimulationPhase, COMPLETE included.
PhaseList == PhaseOrder \o <<"complete">>

(***************************************************************************)
(* Claims                                                                  *)
(***************************************************************************)
\* C1: once agent_threads[agent] is set it is never replaced by another
\* thread id, whatever the interleaving of the simulations of the session.
C1_ThreadBindStable ==
    [][\A a \in Agents :
         session.agent_threads[a] # None
           => session'.agent_threads[a] = session.agent_threads[a]]_vars

\* C2: the reactor assistant is created by one create_assistant call per
\* session, and reactor_assistant_id, once stored, is never overwritten.
C2_ReactorAssistantOnce ==
    [][/\ setup_calls' <= 1
       /\ session.reactor_assistant_id # None
            => session'.reactor_assistant_id = session.reactor_assistant_id]_vars

\* C3: there are never two send_message calls in flight on the same
\* upstream thread id.
C3_OneSendPerThread ==
    \A th \in SessionThreadIds : Cardinality(Senders(th)) <= 1

\* C4: get_all_reactions returns one reaction per catalog agent in catalog
\* order, and the entry of an agent whose task failed is the fallback
\* reaction with that agent's key.
C4_GatherOnePerAgent ==
    \A r \in Requests :
        req[r].kind = "chat" /\ req[r].pc \in TownhallPcs
          => /\ Len(req[r].reactions) = NumAgents
             /\ \A i \in 1..Len(req[r].reactions) :
                  /\ req[r].reactions[i].agent_key = i
                  /\ i \in req[r].failing => req[r].reactions[i].fallback

\* C4 witness: a gathered list in which one agent's task failed and
\* another's returned its own reaction.
C4_Witness ==
    \E r \in Requests :
        /\ req[r].kind = "chat" /\ req[r].pc = "th_ret"
        /\ req[r].failing # {}
        /\ \E i \in Agents \ req[r].failing : ~req[r].reactions[i].fallback

\* C5: when get_all_reactions_with_progress returns, the returned
\* reactions and the reactions handed to the callback each hold exactly one
\* reaction per catalog agent key.
C5_StreamOnePerAgent ==
    \A r \in Requests :
        req[r].kind = "simulate" /\ req[r].pc = "p_coal"
          => /\ Len(req[r].reactions) = NumAgents
             /\ Len(req[r].reported) = NumAgents
             /\ \A a \in Agents :
                  /\ Cardinality({i \in 1..Len(req[r].reactions) :
                                    req[r].reactions[i].agent_key = a}) = 1
                  /\ Cardinality({i \in 1..Len(req[r].reported) :
                                    req[r].reported[i].agent_key = a}) = 1

\* C6: the progress of a job never decreases from one update to the next
\* and stays within 0..100.
C6_ProgressMonotone ==
    [][\A r \in Requests :
         /\ job[r].progress <= job'[r].progress
         /\ 0 <= job'[r].progress
         /\ job'[r].progress <= Pct(100)]_vars

\* C6 witness: a job that went through every update and stands at 100.
C6_Witness ==
    \E r \in Requests :
        /\ job[r].status = "complete"
        /\ job[r].completed_agents = NumAgents
        /\ job[r].progress = Pct(100)

\* C7: every change of a job's phase goes to the next phase of the list
\* (complete after finalizing) or to error.
C7_PhaseOrder ==
    [][\A r \in Requests :
         job'[r].phase # job[r].phase
           => \/ job'[r].phase = "error"
              \/ \E i \in 1..(Len(PhaseList) - 1) :
                   /\ job[r].phase = PhaseList[i]
                   /\ job'[r].phase = PhaseList[i + 1]]_vars

\* C7 witness: a job in generating_townhall, five phase changes in.
C7_Witness ==
    \E r \in Requests :
        job[r].phase = "generating_townhall" /\ job[r].status = "running"

\* C8: completed_agents never exceeds total_agents, grows by exactly one
\* with each reaction handed to the callback, and changes in no other step.
C8_CompletedAgents ==
    [][\A r \in Requests :
         /\ job'[r].completed_agents <= job'[r].total_agents
         /\ job'[r].completed_agents =
              job[r].completed_agents
              + (IF Len(req'[r].reported) > Len(req[r].reported) THEN 1 ELSE 0)]_vars

\* C8 witness: every agent of the catalog has been reported to the job.
C8_Witness ==
    \E r \in Requests :
        /\ req[r].pc = "stream"
        /\ job[r].completed_agents = job[r].total_agents
        /\ job[r].total_agents = NumAgents

\* C9: once the status of a job is complete or error no step changes any
\* field of the job record.
C9_TerminalJob ==
    [][\A r \in Requests :
         job[r].status \in {"complete", "error"} => job'[r] = job[r]]_vars

\* C9 witness: the orchestrator has returned from a job it completed with
\* every agent reported.
C9_Witness ==
    \E r \in Requests :
        /\ req[r].kind = "simulate" /\ req[r].pc = "done"
        /\ job[r].status = "complete"
        /\ Len(job[r].partial_reactions) = NumAgents

\* C10: partial_reactions holds the reactions in the order the coroutines
\* finished (the i-th entry is the reaction of the i-th to finish, when it
\* returned one) and only ever grows at its end.
C10_PartialReactions ==
    [][\A r \in Requests :
         /\ Len(job'[r].partial_reactions) >= Len(job[r].partial_reactions)
         /\ \A i \in 1..Len(job[r].partial_reactions) :
              job'[r].partial_reactions[i] = job[r].partial_reactions[i]
         /\ \A i \in 1..Len(job'[r].partial_reactions) :
              (i <= Len(req'[r].order) /\ req'[r].order[i] \notin req'[r].failing)
                => job'[r].partial_reactions[i].agent_key = req'[r].order[i]]_vars

\* C10 witness: the reactions were recorded in an order other than the
\* order of the catalog.
C10_Witness ==
    \E r \in Requests :
        /\ Len(job[r].partial_reactions) = NumAgents
        /\ job[r].partial_reactions[1].agent_key = NumAgents
        /\ ~job[r].partial_reactions[1].fallback
        /\ req[r].failing = {}

C12_ZoneFromOwnAgent ==
    (calc.fn = "aggregate" /\ calc.returned)
      => \A z \in Agents :
           LET own == calc.reactions[z]
               zone == calc.zones[z]
           IN  /\ zone.sentiment = own.stance
               /\ zone.score = (IF own.stance = "support" THEN 100 * own.intensity
                                ELSE IF own.stance = "oppose" THEN 0 - 100 * own.intensity
                                ELSE 0)
               /\ own.stance = "neutral"
                    => /\ zone.top_support_quotes = <<>>
                       /\ zone.top_oppose_quotes = <<>>

\* C13: when the interpreter returns ok=false, /v1/ai/chat returns at once:
\* its next step is the return of the clarification response, which carries
\* no reactions and no transcript, and by then the request has started no
\* agent coroutine, created no reactor or town hall assistant and no agent
\* or town hall thread, and has no upstream call in flight.
C13_ClarificationOnly ==
    [][\A r \in Requests :
         /\ (req[r].kind = "chat" /\ req[r].pc = "interp_ret" /\ req[r].interp # "ok")
              => /\ req'[r].pc = "done" /\ req'[r].response = "clarify"
                 /\ session' = session /\ task' = task
         /\ (req'[r].kind = "chat" /\ req'[r].response = "clarify")
              => /\ req'[r].reactions = <<>> /\ req'[r].transcript = "none"
                 /\ req'[r].thread = None
                 /\ \A a \in Agents : task'[r][a] = IdleTask
                 /\ \A a \in Agents : session'.agent_threads[a] = None
                 /\ session'.reactor_assistant_id = None
                 /\ session'.townhall_assistant_id = None
                 /\ session'.townhall_thread_id = None]_vars

\* C13 witness: a chat request returned the clarification response after
\* the interpreter's prompt was sent upstream and answered.
C13_Witness ==
    \E r \in Requests :
        /\ req[r].kind = "chat" /\ req[r].pc = "done"
        /\ req[r].response = "clarify"
        /\ request_type
        /\ session.interpreter_thread_id # None

\* C14: interpret never returns a result to its caller after one of its
\* upstream calls (create_assistant, create_thread, send_message) failed,
\* and a chat request in which that happened ends with the upstream
\* failure response, not the clarification response.
C14_InterpretPropagates ==
    [][\A r \in Requests :
         /\ ~(req'[r].pc = "interp_ret" /\ req'[r].interp = "error")
         /\ (req[r].kind = "chat" /\ req[r].interp = "error" /\ req'[r].pc = "done")
              => req'[r].response = "http502"]_vars

\* A promote that has returned a result.
PromoteReturned(p) ==
    /\ req[p].pc = "done" /\ req[p].call.fn = "promote"
    /\ req[p].response \in {"new_run", "cached"}

\* C15: when a promote has returned a result and a second promote with
\* the same scenario, proposal and overrides begins after that and returns,
\* with no other request than cache reads about, the second one returns
\* cached=true with the first one's key and result and has not called the
\* simulation.
C15_SecondPromoteCached ==
    \A p, q \in Requests :
        ( /\ PromoteReturned(p)
          /\ req[q].pc = "done" /\ req[q].call.fn = "promote"
          /\ p \in req[q].call.after
          /\ req[q].call.scenario = req[p].call.scenario
          /\ req[q].call.title = req[p].call.title
          /\ req[q].call.overrides = req[p].call.overrides
          /\ \A o \in Requests \ {p, q} : req[o].kind \in {"idle", "check_cache"} )
        => /\ req[q].response = "cached"
           /\ req[q].call.cache_key = req[p].call.cache_key
           /\ req[q].call.result = req[p].call.result
           /\ ~req[q].call.simulated

\* C15 witness: a promote ran the simulation and stored its result, and a
\* second promote with the same inputs that began after it has returned.
C15_Witness ==
    \E p, q \in Requests :
        /\ PromoteReturned(p) /\ req[p].response = "new_run"
        /\ req[q].pc = "done" /\ req[q].call.fn = "promote"
        /\ p \in req[q].call.after
        /\ req[q].call.scenario = req[p].call.scenario
        /\ req[q].call.title = req[p].call.title
        /\ req[q].call.overrides = req[p].call.overrides
        /\ req[q].call.result.run = p

\* C16: the cache never holds two entries with the same fingerprint key.
C16_OneEntryPerKey ==
    \A x, y \in promotion_cache : x.cache_key = y.cache_key => x = y

Adopted == {r \in Requests : req[r].kind = "adopt" /\ req[r].response = "adopted"}

\* C18: every adopt call that has returned has appended its policy to the
\* session's world state and increased the version by one.
C18_AdoptUpdatesWorldState ==
    /\ session.world_state.version >= Cardinality(Adopted)
    /\ Len(session.world_state.adopted_policies) >= Cardinality(Adopted)

\* The names adopt records the session's threads under.
ExistingThreads ==
    {session.agent_order[i] : i \in DOMAIN session.agent_order}
      \cup (IF session.interpreter_thread_id # None THEN {InterpreterName} ELSE {})
      \cup (IF session.townhall_thread_id # None THEN {TownhallName} ELSE {})

RECURSIVE Succeeded(_)
Succeeded(sent) ==
    IF sent = <<>> THEN <<>>
    ELSE (IF Head(sent)[2] THEN <<Head(sent)[1]>> ELSE <<>>) \o Succeeded(Tail(sent))

\* C19: an adopt call that got its client returns its response whatever
\* sends failed; by then each thread of the session has been sent the
\* record once, and threads_updated lists the threads whose send succeeded.
C19_AdoptEveryThread ==
    \A r \in Requests :
        (req[r].kind = "adopt" /\ req[r].pc = "done" /\ api_key)
          => /\ req[r].response = "adopted"
             /\ {req[r].sent[i][1] : i \in DOMAIN req[r].sent} = ExistingThreads
             /\ \A i, j \in DOMAIN req[r].sent :
                  i # j => req[r].sent[i][1] # req[r].sent[j][1]
             /\ req[r].written = Succeeded(req[r].sent)

\* C19 witness: adopt returned after the send to the first agent thread
\* failed and a later send succeeded.
C19_Witness ==
    \E r \in Requests :
        /\ req[r].kind = "adopt" /\ req[r].pc = "done"
        /\ Len(req[r].sent) >= 2
        /\ ~req[r].sent[1][2]
        /\ req[r].written # <<>>

\* C20: after every update_relationship call every edge score of the
\* session lies in [-1, 1]; the call sets its edge to the previous score
\* (0 for an edge that was absent) plus delta, clamped to that range,
\* returns that score and leaves the other edges as they were.
C20_RelationshipClamped ==
    [][LET c == calc'
           k == <<c.from_agent, c.to_agent>>
           prev == IF session.relationships[k].present
                   THEN session.relationships[k].score ELSE 0
           sum == prev + c.delta
           expected == IF sum > ScoreMax THEN ScoreMax
                       ELSE IF sum < 0 - ScoreMax THEN 0 - ScoreMax ELSE sum
       IN  /\ \A e \in Agents \X Agents :
                /\ session'.relationships[e].score <= ScoreMax
                /\ session'.relationships[e].score >= 0 - ScoreMax
                /\ e # k => session'.relationships[e] = session.relationships[e]
           /\ session'.relationships[k] = [present |-> TRUE, score |-> expected]
           /\ c.returned = expected]_vars

\* C20 witness: a call with a delta beyond the range set its edge to the
\* upper bound, on a session that also holds an edge with a negative score.
C20_Witness ==
    /\ calc.fn = "update_relationship"
    /\ calc.delta > ScoreMax
    /\ calc.returned = ScoreMax
    /\ \E e \in Agents \X Agents :
         session.relationships[e].present /\ session.relationships[e].score < 0

\* C21: a dm from speaker A to recipient B changes no edge of the session
\* but B->A, sets that edge to its old score (0 if it was absent) plus the
\* delta of the stance update, kept within the bounds, and returns as
\* relationship_score the score stored on B->A.
C21_DmUpdatesOneEdge ==
    [][/\ \A k \in Agents \X Agents :
            session'.relationships[k] # session.relationships[k]
            => \E r \in Requests :
                  req[r].pc = "dm_send2" /\ k = <<req[r].to, req[r].from>>
       /\ \A r \in Requests :
            /\ req[r].pc = "dm_send2" /\ req'[r].dm.reply # NoReply
               /\ req'[r].response # "http500"
               => LET k == <<req[r].to, req[r].from>>
                      old == IF session.relationships[k].present
                             THEN session.relationships[k].score ELSE 0
                  IN  /\ session'.relationships[k].present
                      /\ session'.relationships[k].score
                            = Clamp(old + req'[r].dm.relationship_delta)
            /\ req'[r].response = "dm_reply"
               => req'[r].dm.relationship_score
                    = session'.relationships[<<req'[r].dm.to, req'[r].dm.from>>].score
      ]_vars

\* A dm between two different agents returned after it raised the edge
\* from the recipient to the speaker by half a unit, and the edge from the
\* speaker to the recipient exists.
C21_Witness ==
    \E r \in Requests :
        /\ req[r].response = "dm_reply"
        /\ req[r].dm.from # req[r].dm.to
        /\ req[r].dm.relationship_delta = 5
        /\ req[r].dm.relationship_score = 5
        /\ session.relationships[<<req[r].dm.from, req[r].dm.to>>].present

\* The structured replies that are not the expected object: not JSON, not
\* a JSON object, relationship_delta missing or not a number, new_intensity
\* not a number, or a delta outside [-1, +1].
Unparsable(reply) ==
    \/ reply.json \in {"invalid", "other"}
    \/ reply.json = "object"
       /\ \/ reply.delta_type # "number"
          \/ reply.new_intensity = "text"
          \/ reply.relationship_delta < 0 - DeltaMax
          \/ reply.relationship_delta > DeltaMax

\* C26: a dm whose structured reply cannot be parsed into the expected
\* object applies a zero delta, reports stance_changed = false, sends no
\* stance note to the recipient's main thread and returns the reply.
C26_UnparsedReplyDefaults ==
    \A r \in Requests :
        Unparsable(req[r].dm.reply)
        => /\ req[r].dm.relationship_delta = 0
           /\ ~req[r].dm.stance_changed
           /\ req[r].pc # "dm_send3"
           /\ req[r].pc = "done" => req[r].response = "dm_reply"

\* C22: when the moderator's call or the parsing fails, or the reply has
\* fewer than five turns, the transcript is the fallback: it opens with
\* the moderator's welcome, holds a turn for the quote of every reaction
\* that has one, ends with the moderator's closing, and has between 5 and
\* 12 turns.
C22_FallbackTranscript ==
    (calc.fn = "townhall" /\ calc.returned
     /\ (calc.reply.kind # "object" \/ calc.reply.turns < MinTurns))
    => LET turns == calc.transcript.turns
       IN  /\ calc.transcript.fallback
           /\ Len(turns) >= MinTurns /\ Len(turns) <= MaxTurns
           /\ turns[1] = Moderator("welcome")
           /\ turns[Len(turns)] = Moderator("closing")
           /\ \A i \in DOMAIN calc.reactions :
                 calc.reactions[i].quote # ""
                 => \E j \in DOMAIN turns : turns[j] = QuoteTurn(calc.reactions[i])

\* C23: send_message with empty or whitespace-only content fails without
\* an upstream request; every operation of the client sends at most one
\* request and ends with the id or reply it returns or with a
\* BackboardError.
C23_OneRequestOneOutcome ==
    calc.fn \in ClientOps
    => /\ calc.requests <= 1
       /\ (calc.fn = "send_message" /\ \A i \in DOMAIN calc.content : calc.content[i] = " ")
          => calc.requests = 0 /\ (calc.pc = "done" => calc.outcome.kind = "BackboardError")
       /\ calc.pc = "done"
          => \/ calc.outcome.kind = "BackboardError"
             \/ calc.outcome.kind = "returned" /\ calc.outcome.value # "None"

C25_GetReturnsLastSaved ==
    [][\A j \in Requests :
          (calc.fn = "job_store" /\ calc.live[j] > 0
           /\ calc'.live = calc.live /\ calc'.got.job_id = j)
          => calc'.got.version = calc.live[j]]_vars

\* C27: a complete job is in phase complete at 100 percent with result and
\* completed_at set; a job in error is in phase error with error set and no
\* result; a pending or running job has neither result nor error; the
\* status response holds the result only for a complete job and the error
\* only for a job in error.
C27_JobStatusConsistent ==
    \A r \in Requests :
        LET j == job[r]
            response == StatusResponse(j)
        IN  /\ j.status \in {"pending", "running", "complete", "error"}
            /\ j.status = "complete"
               => j.phase = "complete" /\ j.progress = Pct(100) /\ j.result /\ j.completed_at
            /\ j.status = "error"
               => j.phase = "error" /\ j.error /\ ~j.result
            /\ j.status \in {"pending", "running"} => ~j.result /\ ~j.error
            /\ response.result => j.status = "complete"
            /\ response.error => j.status = "error"
            /\ response.result = (j.status = "complete")
            /\ response.error = (j.status = "error")

\* A job is complete and its status response holds the result and no
\* error.
C27_Witness ==
    \E r \in Requests :
        /\ job[r].status = "complete"
        /\ StatusResponse(job[r]).result /\ ~StatusResponse(job[r]).error

\* C28: completed_agents is the number of partial reactions of the job; in
\* the phases after agent_reactions it equals total_agents; and no step
\* taken outside the agent_reactions phase changes completed_agents.
C28_CompletedAgents ==
    /\ [](\A r \in Requests :
            /\ job[r].completed_agents = Len(job[r].partial_reactions)
            /\ job[r].phase \in {"coalition_synthesis", "generating_townhall",
                                 "finalizing", "complete"}
               => job[r].completed_agents = job[r].total_agents)
    /\ [][\A r \in Requests :
            job[r].phase # "agent_reactions"
            => job'[r].completed_agents = job[r].completed_agents]_vars

\* A job is complete with an entry for each of its agents.
C28_Witness ==
    \E r \in Requests :
        /\ job[r].phase = "complete"
        /\ job[r].total_agents = NumAgents
        /\ Len(job[r].partial_reactions) = NumAgents

\* C29: every row that promote_policy inserts holds the response of a
\* completed simulation, never a clarification response.
C29_CacheHoldsCompletedRuns ==
    \A row \in promotion_cache :
        row.id > NumScenarios => row.result_json.response = "full"

\* C30: get_active_calls on a session that exists and has never started a
\* progressive job answers with empty lists.
C30_NoJobYet ==
    (calc.fn = "active_calls" /\ calc.created
     /\ session.last_job_id = NoAttribute)
    => /\ calc.status = "ok"
       /\ calc.active_calls = {} /\ calc.recently_completed = {}

====
